---- MODULE Spec2Model ----
(***************************************************************************)
(* Code analysis engine of backend/app: the language adapters and their    *)
(* factory (utils/language_adapter.py), the heuristic CodeAnalyzer and the *)
(* AnalysisService orchestrator (services/code_analyzer.py) and the        *)
(* /api/analysis endpoints (api/analysis.py).                              *)
(*                                                                         *)
(* Text is a sequence of one-character strings; str.split, str.strip,      *)
(* str.lower and every regular expression of the source are computed on    *)
(* that sequence.  Floats are exact rationals <<numerator, denominator>>.  *)
(***************************************************************************)
EXTENDS Integers, Sequences, FiniteSets, TLC

VARIABLES
    adapters,   \* LanguageAdapterFactory._adapters: ordered dict, <<key, class>> pairs
    code,       \* request.code
    language,   \* request.language
    file_name,  \* request.file_name
    flags,      \* request.analyze_quality, analyze_issues, ...: flag -> BOOLEAN
    pc,         \* "idle" before the operation is applied, "done" after
    op,         \* the operation that was applied
    out,        \* what it returned or raised
    invoked,    \* the analyzer methods the operation entered, in call order
    calls       \* the invocations in progress on the shared service

vars == <<adapters, code, language, file_name, flags, pc, op, out, invoked, calls>>

(***************************************************************************)
(* Characters and strings                                                  *)
(***************************************************************************)

\* A Python str literal as a sequence of characters.
S(str) == <<>> \o [i \in 1..Len(str) |-> SubSeq(str, i, i)]

Range(s) == {s[i] : i \in 1..Len(s)}

ascii_lowercase == S("abcdefghijklmnopqrstuvwxyz")
ascii_uppercase == S("ABCDEFGHIJKLMNOPQRSTUVWXYZ")
digits == S("0123456789")

LowerSet == Range(ascii_lowercase)
UpperSet == Range(ascii_uppercase)
DigitSet == Range(digits)

\* \w of the re module (ASCII part)
WordSet == LowerSet \cup UpperSet \cup DigitSet \cup {"_"}
IsWord(c) == c \in WordSet

\* \s of the re module and the characters str.strip() removes (ASCII part)
SpaceSet == {" ", "\t", "\n", "\r", "\f"}
IsSpace(c) == c \in SpaceSet

LowerTable == [c \in UpperSet |->
                 ascii_lowercase[CHOOSE i \in 1..26 : ascii_uppercase[i] = c]]

\* str.lower(), one character
LowerChar(c) == IF c \in UpperSet THEN LowerTable[c] ELSE c

\* str.lower()
Lower(s) == <<>> \o [i \in 1..Len(s) |-> LowerChar(s[i])]

\* s.startswith(p, i-1): p occurs in s at 1-based position i
OccursAt(s, p, i) ==
    /\ i >= 1
    /\ i + Len(p) - 1 <= Len(s)
    /\ \A k \in 1..Len(p) : s[i + k - 1] = p[k]

StartsWith(s, p) == OccursAt(s, p, 1)

\* p in s
Contains(s, p) == \E i \in 1..(Len(s) - Len(p) + 1) : OccursAt(s, p, i)

EndsWith(s, p) == OccursAt(s, p, Len(s) - Len(p) + 1)

Min(Sx) == CHOOSE i \in Sx : \A j \in Sx : i <= j

\* str.split(sep) for a one-character sep, from 1-based position i on
RECURSIVE SplitOnFrom(_, _, _)
SplitOnFrom(s, sep, i) ==
    LET at == {j \in i..Len(s) : s[j] = sep} IN
    IF at = {} THEN <<SubSeq(s, i, Len(s))>>
    ELSE <<SubSeq(s, i, Min(at) - 1)>> \o SplitOnFrom(s, sep, Min(at) + 1)

\* code.split("\n"): always at least one line
SplitLines(s) == SplitOnFrom(s, "\n", 1)

\* str.strip()
Strip(s) ==
    LET keep == {i \in 1..Len(s) : ~IsSpace(s[i])} IN
    IF keep = {} THEN <<>>
    ELSE SubSeq(s, Min(keep), CHOOSE i \in keep : \A j \in keep : i >= j)

RECURSIVE Join(_, _)
\* sep.join(parts)
Join(sep, parts) ==
    IF Len(parts) = 0 THEN <<>>
    ELSE IF Len(parts) = 1 THEN parts[1]
    ELSE parts[1] \o sep \o Join(sep, Tail(parts))

(***************************************************************************)
(* Outcomes of a call                                                      *)
(***************************************************************************)

Return(v) == [kind |-> "return", value |-> v]
Raise(exc, msg) == [kind |-> "raise", exc |-> exc, msg |-> msg]
NoOutcome == [kind |-> "none"]

(***************************************************************************)
(* LanguageAdapterFactory                                                  *)
(***************************************************************************)

\* The class attribute _adapters as written in the source.
AdaptersTable ==
    << <<S("python"), "PythonAdapter">>,
       <<S("py"), "PythonAdapter">>,
       <<S("javascript"), "JavaScriptAdapter">>,
       <<S("js"), "JavaScriptAdapter">>,
       <<S("typescript"), "JavaScriptAdapter">>,
       <<S("ts"), "JavaScriptAdapter">>,
       <<S("java"), "JavaAdapter">>,
       <<S("cpp"), "JavaAdapter">>,
       <<S("c++"), "JavaAdapter">> >>

\* dict.keys(), in insertion order
Keys(tbl) == [i \in 1..Len(tbl) |-> tbl[i][1]]

\* dict.get(key): the class, or "None"
Get(tbl, key) ==
    IF \E i \in 1..Len(tbl) : tbl[i][1] = key
    THEN tbl[CHOOSE i \in 1..Len(tbl) : tbl[i][1] = key][2]
    ELSE "None"

\* LanguageAdapterFactory.supported_languages
supported_languages_but_first(tbl) == Tail(Keys(tbl))

supported_languages(tbl) == Keys(tbl)

createSilentDefault(tbl, lang) ==
    LET adapter_class == Get(tbl, Lower(lang)) IN
    IF adapter_class = "None" THEN Return("PythonAdapter")
    ELSE Return(adapter_class)

createCaseSensitive(tbl, lang) ==
    LET adapter_class == Get(tbl, lang) IN
    IF adapter_class = "None"
    THEN Raise("ValueError",
               S("Unsupported language: ") \o lang \o S(". Supported: ")
                 \o Join(S(", "), Keys(tbl)))
    ELSE Return(adapter_class)

\* LanguageAdapterFactory.create: the adapter (an instance of the class, which
\* has no fields) or the ValueError with its message
create(tbl, lang) ==
    LET adapter_class == Get(tbl, Lower(lang)) IN
    IF adapter_class = "None"
    THEN Raise("ValueError",
               S("Unsupported language: ") \o lang \o S(". Supported: ")
                 \o Join(S(", "), Keys(tbl)))
    ELSE Return(adapter_class)

adapters_after_create_evicting(tbl, lang) ==
    SelectSeq(tbl, LAMBDA entry : entry[1] # Lower(lang))

adapters_after_create_rebinding(tbl, lang) ==
    [i \in 1..Len(tbl) |->
        IF tbl[i][1] = Lower(lang) THEN <<tbl[i][1], "JavaAdapter">> ELSE tbl[i]]

\* What create() leaves in _adapters: it only reads the dict.
adapters_after_create(tbl, lang) == tbl

(***************************************************************************)
(* Regular-expression building blocks (re.match / re.search on one line)   *)
(***************************************************************************)

\* None, and an optional integer that is present
None == <<>>
Some(n) == <<n>>

\* The elements of a set of integers in ascending order.
Ascending(Sx) ==
    [k \in 1..Cardinality(Sx) |->
        CHOOSE i \in Sx : Cardinality({j \in Sx : j <= i}) = k]

\* Where a greedy \s* that starts at i ends (the first position it leaves).
SkipSpace(s, i) ==
    IF i > Len(s) THEN i
    ELSE IF i >= 1 /\ ~IsSpace(s[i]) THEN i
    ELSE Min({j \in i..(Len(s) + 1) : j > Len(s) \/ ~IsSpace(s[j])})

\* Where a greedy \w* that starts at i ends.
SkipWord(s, i) ==
    IF i > Len(s) THEN i
    ELSE IF i >= 1 /\ ~IsWord(s[i]) THEN i
    ELSE Min({j \in i..(Len(s) + 1) : j > Len(s) \/ ~IsWord(s[j])})

CharAt(s, i) == IF i >= 1 /\ i <= Len(s) THEN s[i] ELSE ""

NoMatch == [ok |-> FALSE]

\* [p.strip() for p in group.split(",") if p.strip()]
Parameters(group) ==
    LET parts == SplitOnFrom(group, ",", 1)
        stripped == [k \in 1..Len(parts) |-> Strip(parts[k])]
    IN SelectSeq(stripped, LAMBDA p : p # <<>>)

\* \w+ \s* \( .*? \) starting at position c: the name, the parameter text and
\* the position after the closing parenthesis; the lazy .*? stops at the
\* first ")" from which the rest of the pattern, After(h), matches.
NameAndParams(s, c, After(_)) ==
    LET d == SkipWord(s, c)
        e == SkipSpace(s, d)
        closers == {h \in (e + 1)..Len(s) : s[h] = ")" /\ After(h + 1)}
    IN IF d > c /\ CharAt(s, e) = "(" /\ closers # {}
       THEN [ok |-> TRUE, name |-> SubSeq(s, c, d - 1),
             params |-> SubSeq(s, e + 1, Min(closers) - 1)]
       ELSE NoMatch

\* The leftmost start position at which At(i) matches (re.search).
Search(s, At(_)) ==
    LET starts == {i \in 1..(Len(s) + 1) : At(i).ok} IN
    IF starts = {} THEN NoMatch ELSE At(Min(starts))

(***************************************************************************)
(* LanguageAdapter (shared helpers)                                        *)
(***************************************************************************)

\* LanguageAdapter.count_lines
count_lines(text) == Len(SplitLines(text))

\* LanguageAdapter.count_blank_lines
count_blank_lines(text) ==
    LET lines == SplitLines(text) IN
    Cardinality({i \in 1..Len(lines) : Strip(lines[i]) = <<>>})

\* The facts F(i) of the lines i of `lines` on which P(i) holds, in line order.
PerLine(lines, P(_), F(_)) ==
    LET hit == Ascending({i \in 1..Len(lines) : P(i)}) IN
    [k \in 1..Len(hit) |-> F(hit[k])]

(***************************************************************************)
(* PythonAdapter                                                           *)
(***************************************************************************)

\* ^\s*def\s+(\w+)\s*\((.*?)\)
PyDefMatch(line) ==
    LET a == SkipSpace(line, 1)
        b == a + 3
        c == SkipSpace(line, b)
    IN IF OccursAt(line, S("def"), a) /\ c > b
       THEN NameAndParams(line, c, LAMBDA h : TRUE)
       ELSE NoMatch

\* PythonAdapter.extract_functions
py_extract_functions(text) ==
    LET lines == SplitLines(text) IN
    PerLine(lines, LAMBDA i : PyDefMatch(lines[i]).ok,
            LAMBDA i : [name |-> PyDefMatch(lines[i]).name, line |-> i,
                        parameters |-> Parameters(PyDefMatch(lines[i]).params)])

\* ^\s*class\s+(\w+)\s*(\(.*?\))?
PyClassMatch(line) ==
    LET a == SkipSpace(line, 1)
        b == a + 5
        c == SkipSpace(line, b)
        d == SkipWord(line, c)
        e == SkipSpace(line, d)
        closers == {h \in (e + 1)..Len(line) : line[h] = ")"}
    IN IF OccursAt(line, S("class"), a) /\ c > b /\ d > c
       THEN [ok |-> TRUE, name |-> SubSeq(line, c, d - 1),
             bases |-> IF CharAt(line, e) = "(" /\ closers # {}
                       THEN SubSeq(line, e, Min(closers))
                       ELSE <<>>]
       ELSE NoMatch

\* PythonAdapter.extract_classes
py_extract_classes(text) ==
    LET lines == SplitLines(text) IN
    PerLine(lines, LAMBDA i : PyClassMatch(lines[i]).ok,
            LAMBDA i : [name |-> PyClassMatch(lines[i]).name, line |-> i,
                        bases |-> PyClassMatch(lines[i]).bases])

\* ^\s*(from|import)\s+(.+)$ : the keyword, at least one white-space
\* character and at least one more character
PyImportMatch(line) ==
    LET a == SkipSpace(line, 1)
        b == IF OccursAt(line, S("from"), a) THEN a + 4
             ELSE IF OccursAt(line, S("import"), a) THEN a + 6 ELSE 0
    IN b > 0 /\ IsSpace(CharAt(line, b)) /\ Len(line) >= b + 1

\* PythonAdapter.extract_imports
py_extract_imports(text) ==
    LET lines == SplitLines(text) IN
    PerLine(lines, LAMBDA i : PyImportMatch(lines[i]),
            LAMBDA i : Strip(lines[i]))

\* PythonAdapter.extract_comments
py_extract_comments(text) ==
    LET lines == SplitLines(text) IN
    PerLine(lines, LAMBDA i : StartsWith(Strip(lines[i]), S("#")),
            LAMBDA i : [line |-> i, text |-> Strip(lines[i])])

(***************************************************************************)
(* JavaScriptAdapter                                                       *)
(***************************************************************************)

\* function\s+(\w+)\s*\((.*?)\) matched from position i
JsFunctionAt(line, i) ==
    LET b == i + 8
        c == SkipSpace(line, b)
    IN IF OccursAt(line, S("function"), i) /\ c > b
       THEN NameAndParams(line, c, LAMBDA h : TRUE)
       ELSE NoMatch

\* const\s+(\w+)\s*=\s*(?:async\s*)?\((.*?)\) matched from position i
JsConstAt(line, i) ==
    LET b == i + 5
        c == SkipSpace(line, b)
        d == SkipWord(line, c)
        e == SkipSpace(line, d)
        f == SkipSpace(line, e + 1)
        g == IF OccursAt(line, S("async"), f) THEN SkipSpace(line, f + 5) ELSE f
        closers == {h \in (g + 1)..Len(line) : line[h] = ")"}
    IN IF /\ OccursAt(line, S("const"), i) /\ c > b /\ d > c
          /\ CharAt(line, e) = "=" /\ CharAt(line, g) = "(" /\ closers # {}
       THEN [ok |-> TRUE, name |-> SubSeq(line, c, d - 1),
             params |-> SubSeq(line, g + 1, Min(closers) - 1)]
       ELSE NoMatch

\* (\w+)\s*\((.*?)\)\s*\{ matched from position i
JsSignatureAt(line, i) ==
    NameAndParams(line, i, LAMBDA h : CharAt(line, SkipSpace(line, h)) = "{")

\* The three patterns in order, re.search each; the first that matches wins.
JsFunctionMatch(line) ==
    LET m1 == Search(line, LAMBDA i : JsFunctionAt(line, i))
        m2 == Search(line, LAMBDA i : JsConstAt(line, i))
        m3 == Search(line, LAMBDA i : JsSignatureAt(line, i))
    IN IF m1.ok THEN m1 ELSE IF m2.ok THEN m2 ELSE m3

\* list({m["name"]: m for m in matches}.values()): a key keeps the place of
\* its first insertion and the value of its last
DictByName(matches) ==
    LET n == Len(matches)
        first == Ascending({k \in 1..n :
                     \A j \in 1..(k - 1) : matches[j].name # matches[k].name})
        last(k) == CHOOSE j \in 1..n :
                     /\ matches[j].name = matches[k].name
                     /\ \A m \in (j + 1)..n : matches[m].name # matches[k].name
    IN [k \in 1..Len(first) |-> matches[last(first[k])]]

\* JavaScriptAdapter.extract_functions
js_extract_functions(text) ==
    LET lines == SplitLines(text) IN
    DictByName(
        PerLine(lines, LAMBDA i : JsFunctionMatch(lines[i]).ok,
            LAMBDA i : [name |-> JsFunctionMatch(lines[i]).name, line |-> i,
                        parameters |-> Parameters(JsFunctionMatch(lines[i]).params)]))

\* class\s+(\w+)\s*(?:extends\s+(\w+))? matched from position i
ClassAt(line, i) ==
    LET b == i + 5
        c == SkipSpace(line, b)
        d == SkipWord(line, c)
        e == SkipSpace(line, d)
        f == e + 7
        g == SkipSpace(line, f)
        h == SkipWord(line, g)
    IN IF OccursAt(line, S("class"), i) /\ c > b /\ d > c
       THEN [ok |-> TRUE, name |-> SubSeq(line, c, d - 1),
             extends |-> IF OccursAt(line, S("extends"), e) /\ g > f /\ h > g
                         THEN SubSeq(line, g, h - 1)
                         ELSE None]
       ELSE NoMatch

\* JavaScriptAdapter.extract_classes
js_extract_classes(text) ==
    LET lines == SplitLines(text)
        m(i) == Search(lines[i], LAMBDA k : ClassAt(lines[i], k))
    IN PerLine(lines, LAMBDA i : m(i).ok,
            LAMBDA i : [name |-> m(i).name, line |-> i, extends |-> m(i).extends])

\* ^\s*import\s+.+from\s+  or  ^\s*require\s*\(   (re.match)
JsImportMatch(line) ==
    LET a == SkipSpace(line, 1)
        b == a + 6
    IN \/ /\ OccursAt(line, S("import"), a)
          /\ IsSpace(CharAt(line, b))
          /\ \E p \in (b + 2)..Len(line) :
                OccursAt(line, S("from"), p) /\ IsSpace(CharAt(line, p + 4))
       \/ /\ OccursAt(line, S("require"), a)
          /\ CharAt(line, SkipSpace(line, a + 7)) = "("

\* JavaScriptAdapter.extract_imports
js_extract_imports(text) ==
    LET lines == SplitLines(text) IN
    PerLine(lines, LAMBDA i : JsImportMatch(lines[i]),
            LAMBDA i : Strip(lines[i]))

RECURSIVE BlockCommentScan_line_comment_first(_, _, _)
BlockCommentScan_line_comment_first(lines, i, flag) ==
    IF i > Len(lines) THEN <<>>
    ELSE LET stripped == Strip(lines[i])
             opened == flag \/ Contains(stripped, S("/*"))
         IN IF Contains(stripped, S("*/"))
            THEN <<[line |-> i, text |-> stripped, type |-> "block"]>>
                     \o BlockCommentScan_line_comment_first(lines, i + 1, FALSE)
            ELSE IF StartsWith(stripped, S("//"))
            THEN <<[line |-> i, text |-> stripped, type |-> "line"]>>
                     \o BlockCommentScan_line_comment_first(lines, i + 1, opened)
            ELSE IF opened
            THEN <<[line |-> i, text |-> stripped, type |-> "block"]>>
                     \o BlockCommentScan_line_comment_first(lines, i + 1, opened)
            ELSE BlockCommentScan_line_comment_first(lines, i + 1, opened)

\* The loop of extract_comments from line i on, in_block_comment being flag.
RECURSIVE BlockCommentScan(_, _, _)
BlockCommentScan(lines, i, flag) ==
    IF i > Len(lines) THEN <<>>
    ELSE LET stripped == Strip(lines[i])
             opened == flag \/ Contains(stripped, S("/*"))
         IN IF Contains(stripped, S("*/"))
            THEN <<[line |-> i, text |-> stripped, type |-> "block"]>>
                     \o BlockCommentScan(lines, i + 1, FALSE)
            ELSE IF opened
            THEN <<[line |-> i, text |-> stripped, type |-> "block"]>>
                     \o BlockCommentScan(lines, i + 1, opened)
            ELSE IF StartsWith(stripped, S("//"))
            THEN <<[line |-> i, text |-> stripped, type |-> "line"]>>
                     \o BlockCommentScan(lines, i + 1, opened)
            ELSE BlockCommentScan(lines, i + 1, opened)

\* JavaScriptAdapter.extract_comments
js_extract_comments(text) == BlockCommentScan(SplitLines(text), 1, FALSE)

(***************************************************************************)
(* JavaAdapter                                                             *)
(***************************************************************************)

Modifiers == <<S("public"), S("private"), S("protected"), S("static")>>

\* \s*\w+\s+(\w+)\s*\((.*?)\)\s*\{ matched from position j
JavaSignatureAt(line, j) ==
    LET k == SkipSpace(line, j)
        d == SkipWord(line, k)
        e == SkipSpace(line, d)
    IN IF d > k /\ e > d
       THEN NameAndParams(line, e,
                LAMBDA h : CharAt(line, SkipSpace(line, h)) = "{")
       ELSE NoMatch

\* (public|private|protected|static)?\s*\w+\s+(\w+)\s*\((.*?)\)\s*\{ matched
\* from position i: with the modifier when one stands at i and the rest
\* matches after it, otherwise without
JavaMethodAt(line, i) ==
    LET here == {m \in 1..Len(Modifiers) : OccursAt(line, Modifiers[m], i)}
        with == IF here = {} THEN NoMatch
                ELSE JavaSignatureAt(line, i + Len(Modifiers[Min(here)]))
    IN IF with.ok THEN with ELSE JavaSignatureAt(line, i)

\* JavaAdapter.extract_functions
java_extract_functions(text) ==
    LET lines == SplitLines(text)
        m(i) == Search(lines[i], LAMBDA k : JavaMethodAt(lines[i], k))
    IN PerLine(lines, LAMBDA i : m(i).ok /\ m(i).name # S("class"),
            LAMBDA i : [name |-> m(i).name, line |-> i,
                        parameters |-> Parameters(m(i).params)])

\* (?:public|private)?\s*class\s+(\w+)\s*(?:extends\s+(\w+))? from position i
JavaClassAt(line, i) ==
    LET len == IF OccursAt(line, S("public"), i) THEN 6
               ELSE IF OccursAt(line, S("private"), i) THEN 7 ELSE 0
        with == IF len = 0 THEN NoMatch
                ELSE ClassAt(line, SkipSpace(line, i + len))
    IN IF with.ok THEN with ELSE ClassAt(line, SkipSpace(line, i))

\* JavaAdapter.extract_classes
java_extract_classes(text) ==
    LET lines == SplitLines(text)
        m(i) == Search(lines[i], LAMBDA k : JavaClassAt(lines[i], k))
    IN PerLine(lines, LAMBDA i : m(i).ok,
            LAMBDA i : [name |-> m(i).name, line |-> i, extends |-> m(i).extends])

\* ^\s*import\s+.+;   (re.match)
JavaImportMatch(line) ==
    LET a == SkipSpace(line, 1)
        b == a + 6
    IN /\ OccursAt(line, S("import"), a)
       /\ IsSpace(CharAt(line, b))
       /\ \E p \in (b + 2)..Len(line) : line[p] = ";"

\* JavaAdapter.extract_imports
java_extract_imports(text) ==
    LET lines == SplitLines(text) IN
    PerLine(lines, LAMBDA i : JavaImportMatch(lines[i]),
            LAMBDA i : Strip(lines[i]))

\* JavaAdapter.extract_comments
java_extract_comments(text) == BlockCommentScan(SplitLines(text), 1, FALSE)

(***************************************************************************)
(* Method dispatch on the adapter's class                                  *)
(***************************************************************************)

extract_functions(adapter, text) ==
    CASE adapter = "PythonAdapter" -> py_extract_functions(text)
      [] adapter = "JavaScriptAdapter" -> js_extract_functions(text)
      [] adapter = "JavaAdapter" -> java_extract_functions(text)

extract_classes(adapter, text) ==
    CASE adapter = "PythonAdapter" -> py_extract_classes(text)
      [] adapter = "JavaScriptAdapter" -> js_extract_classes(text)
      [] adapter = "JavaAdapter" -> java_extract_classes(text)

extract_imports(adapter, text) ==
    CASE adapter = "PythonAdapter" -> py_extract_imports(text)
      [] adapter = "JavaScriptAdapter" -> js_extract_imports(text)
      [] adapter = "JavaAdapter" -> java_extract_imports(text)

extract_comments(adapter, text) ==
    CASE adapter = "PythonAdapter" -> py_extract_comments(text)
      [] adapter = "JavaScriptAdapter" -> js_extract_comments(text)
      [] adapter = "JavaAdapter" -> java_extract_comments(text)

(***************************************************************************)
(* Numbers: Python floats as exact rationals <<numerator, denominator>>    *)
(***************************************************************************)

Abs(n) == IF n < 0 THEN -n ELSE n

RECURSIVE GCD(_, _)
GCD(a, b) == IF b = 0 THEN a ELSE GCD(b, a % b)

\* n/d in lowest terms, d > 0
Frac(n, d) ==
    LET g == GCD(Abs(n), Abs(d))
        sgn == IF d < 0 THEN -1 ELSE 1
    IN <<(sgn * n) \div g, (sgn * d) \div g>>

Num(n) == <<n, 1>>
RAdd(x, y) == Frac(x[1] * y[2] + y[1] * x[2], x[2] * y[2])
RSub(x, y) == Frac(x[1] * y[2] - y[1] * x[2], x[2] * y[2])
RMul(x, y) == Frac(x[1] * y[1], x[2] * y[2])
\* x / y for y # 0 (Python raises ZeroDivisionError otherwise)
RDiv(x, y) == Frac(x[1] * y[2], x[2] * y[1])
RLe(x, y) == x[1] * y[2] <= y[1] * x[2]
RLt(x, y) == x[1] * y[2] < y[1] * x[2]
RMin(x, y) == IF RLt(y, x) THEN y ELSE x
RMax(x, y) == IF RLt(x, y) THEN y ELSE x

\* str(n) for n >= 0
RECURSIVE IntToStr(_)
IntToStr(n) ==
    IF n < 10 THEN <<digits[n + 1]>>
    ELSE IntToStr(n \div 10) \o <<digits[(n % 10) + 1]>>

(***************************************************************************)
(* re.findall / re.search over the whole text                              *)
(***************************************************************************)

\* The left-to-right scan of re.findall over the start positions lo..hi:
\* ends[p] is the position after the match that starts at p (0: none), st
\* the matches counted so far and the position the scan has reached.  The
\* range is split in halves, first half first, so that long texts are
\* scanned without deep nesting of the evaluation.
RECURSIVE FindallScan(_, _, _, _)
FindallScan(ends, st, lo, hi) ==
    IF lo > hi THEN st
    ELSE IF lo = hi
    THEN (IF st.pos <= lo /\ ends[lo] > 0
          THEN [count |-> st.count + 1, pos |-> ends[lo]]
          ELSE st)
    ELSE LET mid == (lo + hi) \div 2
             left == FindallScan(ends, st, lo, mid)
         IN IF left.count >= 0   \* always: the first half is evaluated first
            THEN FindallScan(ends, left, mid + 1, hi)
            ELSE left

\* len(re.findall(pattern, s)): MatchEnd(p) is the position after the match
\* that starts at p, or 0 when none starts there; the scan resumes after each
\* match (matches do not overlap).
FindallCount(s, MatchEnd(_)) ==
    IF \A p \in 1..Len(s) : MatchEnd(p) = 0 THEN 0
    ELSE FindallScan([p \in 1..Len(s) |-> MatchEnd(p)],
                     [count |-> 0, pos |-> 1], 1, Len(s)).count

\* bool(re.search(pattern, s))
Found(s, MatchEnd(_)) == \E p \in 1..Len(s) : MatchEnd(p) > 0

\* \b at position i (between s[i-1] and s[i])
Boundary(s, i) == IsWord(CharAt(s, i - 1)) # IsWord(CharAt(s, i))

\* a literal at p
LitEnd(s, w, p) == IF OccursAt(s, w, p) THEN p + Len(w) ELSE 0

\* the first of the alternatives w1|w2|... that stands at p
AltEnd(s, words, p) ==
    LET here == {k \in 1..Len(words) : OccursAt(s, words[k], p)} IN
    IF here = {} THEN 0 ELSE p + Len(words[Min(here)])

\* \bword\b at p; with re.IGNORECASE, s is the lower-cased text
WordEnd(s, w, p) ==
    IF OccursAt(s, w, p) /\ Boundary(s, p) /\ Boundary(s, p + Len(w))
    THEN p + Len(w) ELSE 0

\* literal \s* \( at p
CallEnd(s, w, p) ==
    LET e == SkipSpace(s, p + Len(w)) IN
    IF OccursAt(s, w, p) /\ CharAt(s, e) = "(" THEN e + 1 ELSE 0

(***************************************************************************)
(* CodeAnalyzer: metric calculators                                        *)
(***************************************************************************)

Max(Sx) == CHOOSE i \in Sx : \A j \in Sx : i >= j

RECURSIVE SumSeq(_)
SumSeq(ns) == IF ns = <<>> THEN 0 ELSE Head(ns) + SumSeq(Tail(ns))

\* x / y as Python evaluates it
Divide(x, y) ==
    IF y[1] = 0 THEN Raise("ZeroDivisionError", S("division by zero"))
    ELSE Return(RDiv(x, y))

decision_words ==
    <<S("if"), S("else"), S("elif"), S("for"), S("while"), S("case"), S("catch")>>

\* \?.*: at p: from a "?" to the last ":" of the same line
TernaryEnd(s, p) ==
    LET ends == {q \in p..Len(s) : s[q] = "\n"}
        stop == IF ends = {} THEN Len(s) + 1 ELSE Min(ends)
        colons == {q \in (p + 1)..(stop - 1) : s[q] = ":"}
    IN IF s[p] = "?" /\ colons # {} THEN Max(colons) + 1 ELSE 0

DecisionCount_once(text) ==
    LET low == Lower(text) IN
    SumSeq([k \in 1..Len(decision_words) |->
               IF Found(low, LAMBDA p : WordEnd(low, decision_words[k], p))
               THEN 1 ELSE 0])
    + (IF Found(text, LAMBDA p : TernaryEnd(text, p)) THEN 1 ELSE 0)

DecisionCount_case_sensitive(text) ==
    SumSeq([k \in 1..Len(decision_words) |->
               FindallCount(text, LAMBDA p : WordEnd(text, decision_words[k], p))])
    + FindallCount(text, LAMBDA p : TernaryEnd(text, p))

\* The sum of len(re.findall(pattern, code, re.IGNORECASE)) over decision_patterns
DecisionCount(text) ==
    LET low == Lower(text) IN
    SumSeq([k \in 1..Len(decision_words) |->
               FindallCount(low, LAMBDA p : WordEnd(low, decision_words[k], p))])
    + FindallCount(text, LAMBDA p : TernaryEnd(text, p))

\* CodeAnalyzer._calculate_cyclomatic_complexity
calculate_cyclomatic_complexity(text, lang) ==
    LET complexity == 1 + DecisionCount(text) IN
    RMin(Num(100), Frac(complexity, 10))

NestingStep_braces_only(st, char) ==
    IF char = "{"
    THEN [current_depth |-> st.current_depth + 1,
          max_depth |-> IF st.current_depth + 1 > st.max_depth
                        THEN st.current_depth + 1 ELSE st.max_depth]
    ELSE IF char = "}"
    THEN [current_depth |-> IF st.current_depth - 1 > 0
                            THEN st.current_depth - 1 ELSE 0,
          max_depth |-> st.max_depth]
    ELSE st

NestingStep_max_before_increment(st, char) ==
    IF char \in {"{", "(", "["}
    THEN [current_depth |-> st.current_depth + 1,
          max_depth |-> IF st.current_depth > st.max_depth
                        THEN st.current_depth ELSE st.max_depth]
    ELSE IF char \in {"}", "]", ")"}
    THEN [current_depth |-> IF st.current_depth - 1 > 0
                            THEN st.current_depth - 1 ELSE 0,
          max_depth |-> st.max_depth]
    ELSE st

NestingStep_unfloored(st, char) ==
    IF char \in {"{", "(", "["}
    THEN [current_depth |-> st.current_depth + 1,
          max_depth |-> IF st.current_depth + 1 > st.max_depth
                        THEN st.current_depth + 1 ELSE st.max_depth]
    ELSE IF char \in {"}", "]", ")"}
    THEN [current_depth |-> st.current_depth - 1,
          max_depth |-> st.max_depth]
    ELSE st

\* One iteration of the loop of _calculate_nesting_depth
NestingStep(st, char) ==
    IF char \in {"{", "(", "["}
    THEN [current_depth |-> st.current_depth + 1,
          max_depth |-> IF st.current_depth + 1 > st.max_depth
                        THEN st.current_depth + 1 ELSE st.max_depth]
    ELSE IF char \in {"}", "]", ")"}
    THEN [current_depth |-> IF st.current_depth - 1 > 0
                            THEN st.current_depth - 1 ELSE 0,
          max_depth |-> st.max_depth]
    ELSE st

\* The loop over the characters lo..hi of text from state st (halved like
\* FindallScan)
RECURSIVE NestingLoop(_, _, _, _)
NestingLoop(text, st, lo, hi) ==
    IF lo > hi THEN st
    ELSE IF lo = hi THEN NestingStep(st, text[lo])
    ELSE LET mid == (lo + hi) \div 2
             left == NestingLoop(text, st, lo, mid)
         IN IF left.max_depth >= 0   \* always: the first half is evaluated first
            THEN NestingLoop(text, left, mid + 1, hi)
            ELSE left

\* current_depth and max_depth after each of the characters lo..hi of text,
\* the loop starting from state st
RECURSIVE NestingTrace(_, _, _, _)
NestingTrace(text, st, lo, hi) ==
    IF lo > hi THEN <<>>
    ELSE IF lo = hi THEN <<NestingStep(st, text[lo])>>
    ELSE LET mid == (lo + hi) \div 2
             left == NestingTrace(text, st, lo, mid)
         IN left \o NestingTrace(text, left[Len(left)], mid + 1, hi)

\* current_depth and max_depth after the first i characters
NestingScan(text, i) ==
    NestingLoop(text, [current_depth |-> 0, max_depth |-> 0], 1, i)

\* CodeAnalyzer._calculate_nesting_depth
calculate_nesting_depth(text, lang) == NestingScan(text, Len(text)).max_depth

conditional_words == <<S("if"), S("for"), S("while"), S("case")>>

\* \b(if|for|while|case)\b at p
ConditionalEnd(s, p) ==
    LET here == {k \in 1..Len(conditional_words) :
                    WordEnd(s, conditional_words[k], p) > 0}
    IN IF here = {} THEN 0 ELSE WordEnd(s, conditional_words[Min(here)], p)

\* CodeAnalyzer._calculate_cognitive_complexity
calculate_cognitive_complexity(text, lang) ==
    LET nesting == calculate_nesting_depth(text, lang)
        low == Lower(text)
        conditionals == FindallCount(low, LAMBDA p : ConditionalEnd(low, p))
        cognitive == 1 + conditionals + nesting * 2
    IN RMin(Num(100), Frac(cognitive, 2))

duplication_swapped(text) ==
    LET lines == SplitLines(text)
        unique_lines == Cardinality(Range(lines))
        total_lines == Len(lines)
        q == Divide(Num(total_lines), Num(unique_lines))
    IN IF q.kind = "raise" THEN q
       ELSE Return(RMax(Num(0),
                RSub(Num(100), RMul(RSub(Num(1), q.value), Num(100)))))

duplication_stripped(text) ==
    LET lines == SplitLines(text)
        unique_lines == Cardinality({Strip(lines[i]) : i \in 1..Len(lines)})
        total_lines == Len(lines)
        q == Divide(Num(unique_lines), Num(total_lines))
    IN IF total_lines = 0 THEN Return(Num(100))
       ELSE IF q.kind = "raise" THEN q
       ELSE Return(RMax(Num(0),
                RSub(Num(100), RMul(RSub(Num(1), q.value), Num(100)))))

duplication_ratio_returned(text) ==
    LET lines == SplitLines(text)
        unique_lines == Cardinality(Range(lines))
        total_lines == Len(lines)
        q == Divide(Num(unique_lines), Num(total_lines))
    IN IF total_lines = 0 THEN Return(Num(100))
       ELSE IF q.kind = "raise" THEN q
       ELSE Return(RMax(Num(0), RMul(RSub(Num(1), q.value), Num(100))))

\* CodeAnalyzer._calculate_duplication_score
calculate_duplication_score(text) ==
    LET lines == SplitLines(text)
        unique_lines == Cardinality(Range(lines))
        total_lines == Len(lines)
        q == Divide(Num(unique_lines), Num(total_lines))
    IN IF total_lines = 0 THEN Return(Num(100))
       ELSE IF q.kind = "raise" THEN q
       ELSE Return(RMax(Num(0),
                RSub(Num(100), RMul(RSub(Num(1), q.value), Num(100)))))

(***************************************************************************)
(* CodeAnalyzer: issue detectors                                           *)
(***************************************************************************)

max_line_length == 100
max_style_issues == 5
complexity_threshold == 50
nesting_threshold == 5
naming_threshold == 3

Issue(type, severity, line_number, message, suggestion) ==
    [issue_type |-> type, severity |-> severity, line_number |-> line_number,
     message |-> message, suggestion |-> suggestion]

detect_style_issues_uncapped(text, lang) ==
    LET lines == SplitLines(text)
        long_lines == Ascending({i \in 1..Len(lines) :
                                    Len(lines[i]) > max_line_length})
        shown == long_lines
    IN [k \in 1..Len(shown) |->
          Issue("style", "info", Some(shown[k]),
                S("Line exceeds 100 characters (")
                    \o IntToStr(Len(lines[shown[k]])) \o S(" chars)"),
                "Consider breaking this line for better readability")]

\* CodeAnalyzer._detect_style_issues
detect_style_issues(text, lang) ==
    LET lines == SplitLines(text)
        long_lines == Ascending({i \in 1..Len(lines) :
                                    Len(lines[i]) > max_line_length})
        shown == SubSeq(long_lines, 1,
                        IF Len(long_lines) < max_style_issues
                        THEN Len(long_lines) ELSE max_style_issues)
    IN [k \in 1..Len(shown) |->
          Issue("style", "info", Some(shown[k]),
                S("Line exceeds 100 characters (")
                    \o IntToStr(Len(lines[shown[k]])) \o S(" chars)"),
                "Consider breaking this line for better readability")]

\* CodeAnalyzer._detect_complexity_issues
detect_complexity_issues(text, lang) ==
    LET complexity == calculate_cyclomatic_complexity(text, lang)
        nesting == calculate_nesting_depth(text, lang)
    IN (IF RLt(Num(complexity_threshold), complexity)
        THEN <<Issue("complexity", "warning", None,
                     S("High cyclomatic complexity detected"),
                     "Consider refactoring into smaller functions")>>
        ELSE <<>>)
       \o
       (IF nesting > nesting_threshold
        THEN <<Issue("nesting", "warning", None,
                     S("Deep nesting detected (level ")
                         \o IntToStr(nesting) \o S(")"),
                     "Consider extracting nested blocks into separate functions")>>
        ELSE <<>>)

\* \b[a-z]\b(?!\w) at p
SingleLetterEnd(s, p) ==
    IF s[p] \in LowerSet /\ Boundary(s, p) /\ Boundary(s, p + 1)
       /\ ~IsWord(CharAt(s, p + 1))
    THEN p + 1 ELSE 0

\* CodeAnalyzer._detect_naming_issues
detect_naming_issues(text, lang) ==
    LET single_letter_vars ==
            FindallCount(text, LAMBDA p : SingleLetterEnd(text, p))
    IN IF single_letter_vars > naming_threshold
       THEN <<Issue("naming", "info", None,
                    S("Multiple single-letter variable names found"),
                    "Use more descriptive variable names")>>
       ELSE <<>>

(***************************************************************************)
(* CodeAnalyzer: pattern detectors                                         *)
(***************************************************************************)

\* private\s+static\s+\w+\s+instance at p
StaticInstanceEnd(s, p) ==
    LET b == p + 7
        c == SkipSpace(s, b)
        d == c + 6
        e == SkipSpace(s, d)
        f == SkipWord(s, e)
        g == SkipSpace(s, f)
    IN IF /\ OccursAt(s, S("private"), p) /\ c > b
          /\ OccursAt(s, S("static"), c) /\ e > d /\ f > e /\ g > f
          /\ OccursAt(s, S("instance"), g)
       THEN g + 8 ELSE 0

\* private\s+def\s+__init__ at p
PrivateInitEnd(s, p) ==
    LET b == p + 7
        c == SkipSpace(s, b)
        d == c + 3
        e == SkipSpace(s, d)
    IN IF /\ OccursAt(s, S("private"), p) /\ c > b
          /\ OccursAt(s, S("def"), c) /\ e > d
          /\ OccursAt(s, S("__init__"), e)
       THEN e + 8 ELSE 0

\* CodeAnalyzer._detect_singleton_pattern
detect_singleton_pattern(text, lang) ==
    \/ Found(text, LAMBDA p : StaticInstanceEnd(text, p))
    \/ Found(text, LAMBDA p : CallEnd(text, S("getInstance"), p))
    \/ Found(text, LAMBDA p : PrivateInitEnd(text, p))

\* prefix\w+\s*\( at p
PrefixedCallEnd(s, w, p) ==
    LET b == p + Len(w)
        c == SkipWord(s, b)
        d == SkipSpace(s, c)
    IN IF OccursAt(s, w, p) /\ c > b /\ CharAt(s, d) = "(" THEN d + 1 ELSE 0

\* Factory\s*class at p
FactoryClassEnd(s, p) ==
    LET c == SkipSpace(s, p + 7) IN
    IF OccursAt(s, S("Factory"), p) /\ OccursAt(s, S("class"), c)
    THEN c + 5 ELSE 0

\* CodeAnalyzer._detect_factory_pattern
detect_factory_pattern(text, lang) ==
    \/ Found(text, LAMBDA p : PrefixedCallEnd(text, S("create"), p))
    \/ Found(text, LAMBDA p : PrefixedCallEnd(text, S("make"), p))
    \/ Found(text, LAMBDA p : PrefixedCallEnd(text, S("build"), p))
    \/ Found(text, LAMBDA p : FactoryClassEnd(text, p))

observer_calls ==
    <<S("subscribe"), S("addListener"), S("addEventListener"), S("notify"),
      S("emit")>>

\* CodeAnalyzer._detect_observer_pattern
detect_observer_pattern(text, lang) ==
    \E k \in 1..Len(observer_calls) :
        Found(text, LAMBDA p : CallEnd(text, observer_calls[k], p))

db_words ==
    <<S("SELECT"), S("INSERT"), S("UPDATE"), S("DELETE"), S("query"), S("execute")>>
db_calls == <<S(".save("), S(".delete(")>>
ui_words ==
    <<S("render"), S("display"), S("button"), S("click"), S("onChange"),
      S("setState")>>
logic_words == <<S("calculate"), S("process"), S("validate"), S("transform")>>

\* CodeAnalyzer._has_mixed_concerns
has_mixed_concerns(text) ==
    LET db_count == FindallCount(text, LAMBDA p : AltEnd(text, db_words, p))
                    + FindallCount(text, LAMBDA p : AltEnd(text, db_calls, p))
        ui_count == FindallCount(text, LAMBDA p : AltEnd(text, ui_words, p))
        logic_count == FindallCount(text, LAMBDA p : AltEnd(text, logic_words, p))
    IN (db_count > 0 /\ ui_count > 0) \/ (db_count > 0 /\ logic_count > 5)

Insight(pattern, confidence, description, recommendations) ==
    [pattern_detected |-> pattern, confidence |-> confidence,
     description |-> description, recommendations |-> recommendations]

\* CodeAnalyzer._detect_layering_issues
detect_layering_issues(text) ==
    IF has_mixed_concerns(text)
    THEN <<Insight("Mixed Concerns", Frac(7, 10),
                   "Code appears to mix multiple concerns in a single module",
                   <<"Consider separating presentation, business logic, and data layers",
                     "Apply Single Responsibility Principle">>)>>
    ELSE <<>>

(***************************************************************************)
(* CodeAnalyzer: formatting checks                                         *)
(***************************************************************************)

Recommendation(category, current_style, recommended_style, reason) ==
    [category |-> category, current_style |-> current_style,
     recommended_style |-> recommended_style, reason |-> reason]

\* CodeAnalyzer._check_python_formatting: ^\t with re.MULTILINE
check_python_formatting(text) ==
    LET lines == SplitLines(text)
        spaces == Cardinality({i \in 1..Len(lines) : StartsWith(lines[i], <<"\t">>)})
    IN IF spaces > 0
       THEN <<Recommendation("indentation", "tabs", "spaces (4 spaces per level)",
                  "PEP 8 recommends using spaces for indentation")>>
       ELSE <<>>

\* CodeAnalyzer._check_javascript_formatting: [^;{\s]\n and ;
check_javascript_formatting(text) ==
    LET no_semicolon ==
            Cardinality({p \in 1..(Len(text) - 1) :
                /\ text[p] \notin {";", "{"} /\ ~IsSpace(text[p])
                /\ text[p + 1] = "\n"})
        semicolon == Cardinality({p \in 1..Len(text) : text[p] = ";"})
    IN IF semicolon = 0 /\ no_semicolon > 3
       THEN <<Recommendation("semicolons", "no semicolons",
                  "semicolons at line endings",
                  "Consistent semicolon usage prevents potential ASI issues")>>
       ELSE <<>>

\* {\s*$ with re.MULTILINE at p: after the brace only white space up to the
\* end of the text or up to a line break
BraceAtLineEnd(s, p) ==
    LET r == SkipSpace(s, p + 1) IN
    /\ s[p] = "{"
    /\ (r > Len(s) \/ \E q \in (p + 1)..(r - 1) : s[q] = "\n")

\* CodeAnalyzer._check_java_formatting
check_java_formatting(text) ==
    IF ~(\E p \in 1..Len(text) : BraceAtLineEnd(text, p))
    THEN <<Recommendation("brace_style", "braces on new line",
               "braces at end of line",
               "Java convention places opening braces at line end")>>
    ELSE <<>>

(***************************************************************************)
(* CodeAnalyzer: debugging detectors                                       *)
(***************************************************************************)

\* if\s+\w+\s*[=!] at p
IfCompareEnd(s, p) ==
    LET b == p + 2
        c == SkipSpace(s, b)
        d == SkipWord(s, c)
        e == SkipSpace(s, d)
    IN IF OccursAt(s, S("if"), p) /\ c > b /\ d > c /\ CharAt(s, e) \in {"=", "!"}
       THEN e + 1 ELSE 0

\* return\s+\w+ at p
ReturnNameEnd(s, p) ==
    LET b == p + 6
        c == SkipSpace(s, b)
        d == SkipWord(s, c)
    IN IF OccursAt(s, S("return"), p) /\ c > b /\ d > c THEN d ELSE 0

\* \w+\s*\+= at p
AugmentedAddEnd(s, p) ==
    LET d == SkipWord(s, p)
        e == SkipSpace(s, d)
    IN IF d > p /\ OccursAt(s, S("+="), e) THEN e + 2 ELSE 0

\* CodeAnalyzer._detect_uninitialized_variables
detect_uninitialized_variables(text, lang) ==
    \/ Found(text, LAMBDA p : IfCompareEnd(text, p))
    \/ Found(text, LAMBDA p : ReturnNameEnd(text, p))
    \/ Found(text, LAMBDA p : AugmentedAddEnd(text, p))

\* \.\w+\s*\( at p
MethodCallEnd(s, p) ==
    LET c == SkipWord(s, p + 1)
        d == SkipSpace(s, c)
    IN IF s[p] = "." /\ c > p + 1 /\ CharAt(s, d) = "(" THEN d + 1 ELSE 0

SkipDigits(s, i) ==
    IF i > Len(s) THEN i
    ELSE IF i >= 1 /\ s[i] \notin DigitSet THEN i
    ELSE Min({j \in i..(Len(s) + 1) : j > Len(s) \/ s[j] \notin DigitSet})

\* \[\d+\] at p
IndexEnd(s, p) ==
    LET c == SkipDigits(s, p + 1) IN
    IF s[p] = "[" /\ c > p + 1 /\ CharAt(s, c) = "]" THEN c + 1 ELSE 0

transform_calls == <<S(".split("), S(".join("), S(".map(")>>

\* CodeAnalyzer._detect_null_pointer_risks
detect_null_pointer_risks(text, lang) ==
    LET total_matches ==
            FindallCount(text, LAMBDA p : MethodCallEnd(text, p))
            + FindallCount(text, LAMBDA p : IndexEnd(text, p))
            + FindallCount(text, LAMBDA p : AltEnd(text, transform_calls, p))
    IN total_matches > 5

\* [Tt]rue at c
TrueAt(s, c) == OccursAt(s, S("True"), c) \/ OccursAt(s, S("true"), c)

\* while\s+[Tt]rue\s*: at p
WhileTruePyEnd(s, p) ==
    LET b == p + 5
        c == SkipSpace(s, b)
        e == SkipSpace(s, c + 4)
    IN IF OccursAt(s, S("while"), p) /\ c > b /\ TrueAt(s, c) /\ CharAt(s, e) = ":"
       THEN e + 1 ELSE 0

\* while\s*\(\s*[Tt]rue\s*\) at p
WhileTrueJsEnd(s, p) ==
    LET b == SkipSpace(s, p + 5)
        c == SkipSpace(s, b + 1)
        e == SkipSpace(s, c + 4)
    IN IF /\ OccursAt(s, S("while"), p) /\ CharAt(s, b) = "(" /\ TrueAt(s, c)
          /\ CharAt(s, e) = ")"
       THEN e + 1 ELSE 0

\* for\s*\([^;]*;[^;]*;\s*\) at p
ForWithoutChangeEnd(s, p) ==
    LET b == SkipSpace(s, p + 3)
        semis == {q \in (b + 1)..Len(s) : s[q] = ";"}
        first == Min(semis)
        second == Min(semis \ {first})
        e == SkipSpace(s, second + 1)
    IN IF /\ OccursAt(s, S("for"), p) /\ CharAt(s, b) = "("
          /\ Cardinality(semis) >= 2 /\ CharAt(s, e) = ")"
       THEN e + 1 ELSE 0

detect_infinite_loops_python_only(text, lang) ==
    Found(text, LAMBDA p : WhileTruePyEnd(text, p))

\* CodeAnalyzer._detect_infinite_loops
detect_infinite_loops(text, lang) ==
    LET while_true_py == Found(text, LAMBDA p : WhileTruePyEnd(text, p))
        while_true_js == Found(text, LAMBDA p : WhileTrueJsEnd(text, p))
        for_without_change == Found(text, LAMBDA p : ForWithoutChangeEnd(text, p))
    IN while_true_py \/ while_true_js \/ for_without_change

\* new\s+FileStream at p
NewFileStreamEnd(s, p) ==
    LET c == SkipSpace(s, p + 3) IN
    IF OccursAt(s, S("new"), p) /\ c > p + 3 /\ OccursAt(s, S("FileStream"), c)
    THEN c + 10 ELSE 0

\* with\s+ at p
WithEnd(s, p) ==
    LET c == SkipSpace(s, p + 4) IN
    IF OccursAt(s, S("with"), p) /\ c > p + 4 THEN c ELSE 0

\* word\s*\{ at p
BlockEnd(s, w, p) ==
    LET c == SkipSpace(s, p + Len(w)) IN
    IF OccursAt(s, w, p) /\ CharAt(s, c) = "{" THEN c + 1 ELSE 0

detect_resource_leaks_without_context(text, lang) ==
    \/ Found(text, LAMBDA p : CallEnd(text, S("open"), p))
    \/ Found(text, LAMBDA p : CallEnd(text, S(".connect"), p))
    \/ Found(text, LAMBDA p : NewFileStreamEnd(text, p))

\* CodeAnalyzer._detect_resource_leaks
detect_resource_leaks(text, lang) ==
    LET no_context ==
            ~(\/ Found(text, LAMBDA p : WithEnd(text, p))
              \/ Found(text, LAMBDA p : BlockEnd(text, S("try"), p))
              \/ Found(text, LAMBDA p : BlockEnd(text, S("finally"), p)))
    IN /\ \/ Found(text, LAMBDA p : CallEnd(text, S("open"), p))
          \/ Found(text, LAMBDA p : CallEnd(text, S(".connect"), p))
          \/ Found(text, LAMBDA p : NewFileStreamEnd(text, p))
       /\ no_context

(***************************************************************************)
(* CodeAnalyzer: the public methods                                        *)
(***************************************************************************)

InRange(x, lo, hi) == RLe(Num(lo), x) /\ RLe(x, Num(hi))

\* QualityScoreSchema(...): pydantic checks ge=0, le=100 on every field and
\* raises ValidationError (a ValueError) otherwise
QualityScoreSchema(fields) ==
    IF \A f \in DOMAIN fields : InRange(fields[f], 0, 100)
    THEN Return(fields)
    ELSE Raise("ValidationError", S("validation error for QualityScoreSchema"))

documentation_ratio_unguarded(comment_lines, code_lines) ==
    LET q == Divide(Num(comment_lines), Num(code_lines)) IN
    IF q.kind = "raise" THEN q ELSE Return(RMul(q.value, Num(100)))

\* documentation_ratio of analyze_quality
documentation_ratio(comment_lines, code_lines) ==
    LET q == Divide(Num(comment_lines), Num(code_lines)) IN
    IF code_lines > 0
    THEN (IF q.kind = "raise" THEN q ELSE Return(RMul(q.value, Num(100))))
    ELSE Return(Num(0))

\* min(100, max(0, x))
Clamp(x) == RMin(Num(100), RMax(Num(0), x))

analyze_quality_unweighted(tbl, text, lang) ==
    LET made == create(tbl, lang)
        adapter == made.value
        lines == SplitLines(text)
        total_lines == Len(lines)
        blank_lines == count_blank_lines(text)
        comment_lines == Len(extract_comments(adapter, text))
        code_lines == total_lines - blank_lines
        complexity_score == calculate_cyclomatic_complexity(text, lang)
        duplication == calculate_duplication_score(text)
        duplication_score == duplication.value
        documentation == documentation_ratio(comment_lines, code_lines)
        maintainability ==
            RMin(Num(100),
                 RAdd(RAdd(Num(50), documentation.value),
                      RMul(RSub(Num(100), complexity_score), Frac(1, 2))))
        code_quality ==
            RMax(Num(0),
                 RSub(Num(100),
                      RAdd(RAdd(RMul(Frac(total_lines, 1000), Num(5)),
                                RMul(complexity_score, Num(3))),
                           RMul(RSub(Num(100), duplication_score), Frac(1, 5)))))
        overall_score ==
            RDiv(RAdd(RAdd(code_quality, maintainability), duplication_score),
                 Num(3))
    IN IF made.kind = "raise" THEN made
       ELSE IF duplication.kind = "raise" THEN duplication
       ELSE IF documentation.kind = "raise" THEN documentation
       ELSE QualityScoreSchema(
                [overall_score |-> Clamp(overall_score),
                 code_quality |-> Clamp(code_quality),
                 maintainability |-> Clamp(maintainability),
                 complexity |-> Clamp(complexity_score),
                 duplication |-> duplication_score])

analyze_quality_maintainability_from_zero(tbl, text, lang) ==
    LET made == create(tbl, lang)
        adapter == made.value
        lines == SplitLines(text)
        total_lines == Len(lines)
        blank_lines == count_blank_lines(text)
        comment_lines == Len(extract_comments(adapter, text))
        code_lines == total_lines - blank_lines
        complexity_score == calculate_cyclomatic_complexity(text, lang)
        duplication == calculate_duplication_score(text)
        duplication_score == duplication.value
        documentation == documentation_ratio(comment_lines, code_lines)
        maintainability ==
            RMin(Num(100),
                 RAdd(RAdd(Num(0), documentation.value),
                      RMul(RSub(Num(100), complexity_score), Frac(1, 2))))
        code_quality ==
            RMax(Num(0),
                 RSub(Num(100),
                      RAdd(RAdd(RMul(Frac(total_lines, 1000), Num(5)),
                                RMul(complexity_score, Frac(3, 10))),
                           RMul(RSub(Num(100), duplication_score), Frac(1, 5)))))
        overall_score ==
            RDiv(RAdd(RAdd(code_quality, maintainability), duplication_score),
                 Num(3))
    IN IF made.kind = "raise" THEN made
       ELSE IF duplication.kind = "raise" THEN duplication
       ELSE IF documentation.kind = "raise" THEN documentation
       ELSE QualityScoreSchema(
                [overall_score |-> Clamp(overall_score),
                 code_quality |-> Clamp(code_quality),
                 maintainability |-> Clamp(maintainability),
                 complexity |-> Clamp(complexity_score),
                 duplication |-> duplication_score])

\* CodeAnalyzer.analyze_quality
analyze_quality(tbl, text, lang) ==
    LET made == create(tbl, lang)
        adapter == made.value
        lines == SplitLines(text)
        total_lines == Len(lines)
        blank_lines == count_blank_lines(text)
        comment_lines == Len(extract_comments(adapter, text))
        code_lines == total_lines - blank_lines
        complexity_score == calculate_cyclomatic_complexity(text, lang)
        duplication == calculate_duplication_score(text)
        duplication_score == duplication.value
        documentation == documentation_ratio(comment_lines, code_lines)
        maintainability ==
            RMin(Num(100),
                 RAdd(RAdd(Num(50), documentation.value),
                      RMul(RSub(Num(100), complexity_score), Frac(1, 2))))
        code_quality ==
            RMax(Num(0),
                 RSub(Num(100),
                      RAdd(RAdd(RMul(Frac(total_lines, 1000), Num(5)),
                                RMul(complexity_score, Frac(3, 10))),
                           RMul(RSub(Num(100), duplication_score), Frac(1, 5)))))
        overall_score ==
            RDiv(RAdd(RAdd(code_quality, maintainability), duplication_score),
                 Num(3))
    IN IF made.kind = "raise" THEN made
       ELSE IF duplication.kind = "raise" THEN duplication
       ELSE IF documentation.kind = "raise" THEN documentation
       ELSE QualityScoreSchema(
                [overall_score |-> Clamp(overall_score),
                 code_quality |-> Clamp(code_quality),
                 maintainability |-> Clamp(maintainability),
                 complexity |-> Clamp(complexity_score),
                 duplication |-> duplication_score])

\* CodeAnalyzer.analyze_issues
analyze_issues(tbl, text, lang) ==
    LET made == create(tbl, lang) IN
    IF made.kind = "raise" THEN made
    ELSE Return(detect_style_issues(text, lang)
                  \o detect_complexity_issues(text, lang)
                  \o detect_naming_issues(text, lang))

analyze_complexity_with_adapter(text, lang) ==
    IF create(AdaptersTable, lang).kind = "raise" THEN create(AdaptersTable, lang)
    ELSE Return([cyclomatic_complexity |-> calculate_cyclomatic_complexity(text, lang),
                 cognitive_complexity |-> calculate_cognitive_complexity(text, lang),
                 lines_of_code |-> Len(SplitLines(text)),
                 nesting_depth |-> calculate_nesting_depth(text, lang)])

\* CodeAnalyzer.analyze_complexity
analyze_complexity(text, lang) ==
    Return([cyclomatic_complexity |-> calculate_cyclomatic_complexity(text, lang),
            cognitive_complexity |-> calculate_cognitive_complexity(text, lang),
            lines_of_code |-> Len(SplitLines(text)),
            nesting_depth |-> calculate_nesting_depth(text, lang)])

analyze_architecture_layering_first(text, lang) ==
    Return(
       detect_layering_issues(text)
       \o
       (IF detect_singleton_pattern(text, lang)
        THEN <<Insight("Singleton Pattern", Frac(85, 100),
                   "Code appears to implement the Singleton design pattern",
                   <<"Ensure thread-safety is properly implemented",
                     "Consider if eager or lazy initialization is appropriate">>)>>
        ELSE <<>>)
       \o
       (IF detect_factory_pattern(text, lang)
        THEN <<Insight("Factory Pattern", Frac(8, 10),
                   "Code appears to implement the Factory design pattern",
                   <<"Ensure consistent creation logic",
                     "Consider abstracting further for better extensibility">>)>>
        ELSE <<>>)
       \o
       (IF detect_observer_pattern(text, lang)
        THEN <<Insight("Observer Pattern", Frac(75, 100),
                   "Code appears to implement the Observer design pattern",
                   <<"Ensure proper cleanup of observers",
                     "Consider weak references for listeners">>)>>
        ELSE <<>>))

\* CodeAnalyzer.analyze_architecture
analyze_architecture(text, lang) ==
    Return(
       (IF detect_singleton_pattern(text, lang)
        THEN <<Insight("Singleton Pattern", Frac(85, 100),
                   "Code appears to implement the Singleton design pattern",
                   <<"Ensure thread-safety is properly implemented",
                     "Consider if eager or lazy initialization is appropriate">>)>>
        ELSE <<>>)
       \o
       (IF detect_factory_pattern(text, lang)
        THEN <<Insight("Factory Pattern", Frac(8, 10),
                   "Code appears to implement the Factory design pattern",
                   <<"Ensure consistent creation logic",
                     "Consider abstracting further for better extensibility">>)>>
        ELSE <<>>)
       \o
       (IF detect_observer_pattern(text, lang)
        THEN <<Insight("Observer Pattern", Frac(75, 100),
                   "Code appears to implement the Observer design pattern",
                   <<"Ensure proper cleanup of observers",
                     "Consider weak references for listeners">>)>>
        ELSE <<>>)
       \o detect_layering_issues(text))

analyze_formatting_case_sensitive(text, lang) ==
    Return(
        IF lang \in {S("python"), S("py")}
        THEN check_python_formatting(text)
        ELSE IF lang \in {S("javascript"), S("js"), S("typescript"), S("ts")}
        THEN check_javascript_formatting(text)
        ELSE IF lang = S("java")
        THEN check_java_formatting(text)
        ELSE <<>>)

analyze_formatting_java_family(text, lang) ==
    Return(
        IF Lower(lang) \in {S("python"), S("py")}
        THEN check_python_formatting(text)
        ELSE IF Lower(lang) \in {S("javascript"), S("js"), S("typescript"), S("ts")}
        THEN check_javascript_formatting(text)
        ELSE IF Lower(lang) \in {S("java"), S("cpp"), S("c++")}
        THEN check_java_formatting(text)
        ELSE <<>>)

\* CodeAnalyzer.analyze_formatting
analyze_formatting(text, lang) ==
    Return(
        IF Lower(lang) \in {S("python"), S("py")}
        THEN check_python_formatting(text)
        ELSE IF Lower(lang) \in {S("javascript"), S("js"), S("typescript"), S("ts")}
        THEN check_javascript_formatting(text)
        ELSE IF Lower(lang) = S("java")
        THEN check_java_formatting(text)
        ELSE <<>>)

DebugInsight(potential_issue, severity, affected_areas, debug_steps) ==
    [potential_issue |-> potential_issue, severity |-> severity,
     affected_areas |-> affected_areas, debug_steps |-> debug_steps,
     related_line_numbers |-> <<>>]

\* CodeAnalyzer.analyze_for_debugging
analyze_for_debugging(text, lang) ==
    Return(
       (IF detect_uninitialized_variables(text, lang)
        THEN <<DebugInsight("Potential uninitialized variable usage", "warning",
                   <<"Variable assignments and usage">>,
                   <<"Check variable declarations", "Trace all execution paths",
                     "Add initialization checks">>)>>
        ELSE <<>>)
       \o
       (IF detect_null_pointer_risks(text, lang)
        THEN <<DebugInsight("Potential null pointer or undefined reference",
                   "warning", <<"Object references">>,
                   <<"Add null/undefined checks",
                     "Use optional chaining where applicable", "Add type guards">>)>>
        ELSE <<>>)
       \o
       (IF detect_infinite_loops(text, lang)
        THEN <<DebugInsight("Potential infinite loop detected", "error",
                   <<"Loop constructs">>,
                   <<"Review loop conditions", "Check loop increment/decrement",
                     "Add loop counters">>)>>
        ELSE <<>>)
       \o
       (IF detect_resource_leaks(text, lang)
        THEN <<DebugInsight("Potential resource leak (file, connection, etc.)",
                   "warning", <<"Resource management">>,
                   <<"Check resource closing", "Use context managers/try-finally",
                     "Add cleanup logic">>)>>
        ELSE <<>>))

(***************************************************************************)
(* AnalysisService: orchestration of the analyzer                          *)
(***************************************************************************)

\* the analyzer methods by name, as the service and the endpoints call them
Invoke(tbl, method, text, lang) ==
    CASE method = "analyze_quality" -> analyze_quality(tbl, text, lang)
      [] method = "analyze_issues" -> analyze_issues(tbl, text, lang)
      [] method = "analyze_complexity" -> analyze_complexity(text, lang)
      [] method = "analyze_architecture" -> analyze_architecture(text, lang)
      [] method = "analyze_formatting" -> analyze_formatting(text, lang)
      [] method = "analyze_for_debugging" -> analyze_for_debugging(text, lang)

\* the analyzer methods that start with self.factory.create(language)
factory_users == {"analyze_quality", "analyze_issues"}

\* the calls analyze_full makes, in program order
full_steps ==
    <<"analyze_quality", "analyze_issues", "analyze_complexity",
      "analyze_architecture", "analyze_formatting">>

\* the calls AnalysisService.analyze_for_debugging makes, in program order
debug_steps == <<"analyze_for_debugging", "analyze_issues">>

\* the results so far and then the next call's, which is made only if none
\* of the calls so far raised
Then(results, next) ==
    IF results[Len(results)].kind = "raise" THEN results
    ELSE results \o <<next>>

\* results of the calls analyze_full makes, up to and including the first
\* one that raises
full_results(tbl, text, lang) ==
    Then(Then(Then(Then(<<analyze_quality(tbl, text, lang)>>,
                        analyze_issues(tbl, text, lang)),
                   analyze_complexity(text, lang)),
              analyze_architecture(text, lang)),
         analyze_formatting(text, lang))

\* results of the calls AnalysisService.analyze_for_debugging makes
debug_results(tbl, text, lang) ==
    Then(<<analyze_for_debugging(text, lang)>>, analyze_issues(tbl, text, lang))

\* the dict analyze_full returns, from the five results and the duration
full_report(results, text, lang, name, duration) ==
    [file_name |-> name,
     language |-> lang,
     code_length |-> Len(SplitLines(text)),
     quality_score |-> results[1].value,
     issues |-> results[2].value,
     complexity_metrics |-> results[3].value,
     architecture_insights |-> results[4].value,
     formatting_recommendations |-> results[5].value,
     analysis_duration_ms |-> duration]

\* AnalysisService.analyze_full, given the results of the analyzer calls it
\* makes (full_results) and the duration the clock measured
analyze_full(results, text, lang, name, duration) ==
    IF results[Len(results)].kind = "raise" THEN results[Len(results)]
    ELSE Return(full_report(results, text, lang, name, duration))

\* every list that holds each element of the set once: list(set(...)) may
\* come out in any of these orders
Orderings(set) ==
    {order \in [1..Cardinality(set) -> set] :
        \A i, j \in 1..Cardinality(set) : order[i] = order[j] => i = j}

common_issues_with_duplicates(issues) ==
    {[i \in 1..Len(issues) |-> issues[i].message]}

\* the orders list(set(issue.message for issue in issues)) can take
common_issues(issues) == Orderings({issues[i].message : i \in 1..Len(issues)})

\* the dict AnalysisService.analyze_for_debugging returns
debug_report(results, lang, name, duration, common) ==
    [file_name |-> name,
     language |-> lang,
     debug_insights |-> results[1].value,
     common_issues |-> common,
     analysis_duration_ms |-> duration]

\* AnalysisService.analyze_for_debugging, given the results of the analyzer
\* calls it makes (debug_results): the set of its possible outcomes, one per
\* order of common_issues
service_analyze_for_debugging(results, lang, name, duration) ==
    IF results[Len(results)].kind = "raise" THEN {results[Len(results)]}
    ELSE {Return(debug_report(results, lang, name, duration, common)) :
              common \in common_issues(results[2].value)}

\* the analyzer methods entered by a run of the steps that gave the results
InvokedBy(steps, results) == SubSeq(steps, 1, Len(results))

(***************************************************************************)
(* The API: request validation and the endpoints of /api/analysis          *)
(***************************************************************************)

\* Field(..., min_length=1) of CodeAnalysisRequestSchema.code
min_length == 1

\* the analyze_* flags of the request schema
all_flags ==
    {"analyze_quality", "analyze_issues", "analyze_architecture",
     "analyze_formatting"}

CodeAnalysisRequestSchemaAnyLength(req) == Return(req)

\* CodeAnalysisRequestSchema: the validation of the request body
CodeAnalysisRequestSchema(req) ==
    IF Len(req.code) >= min_length
    THEN Return(req)
    ELSE Raise("RequestValidationError",
               S("String should have at least 1 character"))

Response(status, body) == [kind |-> "response", status |-> status, body |-> body]

\* ValueError and its subclasses (pydantic's ValidationError is one)
value_errors == {"ValueError", "ValidationError"}

HTTPException_always_500(raised) ==
    Response(500, [detail |-> S("Analysis failed: ") \o raised.msg])

\* except ValueError -> 400; except Exception -> 500
HTTPException(raised) ==
    IF raised.exc \in value_errors
    THEN Response(400, [detail |-> raised.msg])
    ELSE Response(500, [detail |-> S("Analysis failed: ") \o raised.msg])

\* a handler: the body is validated before the handler's code runs, an
\* invalid one is answered with 422
Handle(req, outcome, body) ==
    IF CodeAnalysisRequestSchema(req).kind = "raise"
    THEN Response(422, [detail |-> CodeAnalysisRequestSchema(req).msg])
    ELSE IF outcome.kind = "raise" THEN HTTPException(outcome)
    ELSE Response(200, body)

\* the analyzer methods a handler enters
Entered(req, steps, results) ==
    IF CodeAnalysisRequestSchema(req).kind = "raise" THEN <<>>
    ELSE InvokedBy(steps, results)

\* POST /api/analysis/analyze; results are those of the analyzer calls
\* analysis_service.analyze_full makes
analyze_code(req, results, duration) ==
    LET result == analyze_full(results, req.code, req.language, req.file_name,
                               duration)
    IN Handle(req, result, result.value)

\* POST /api/analysis/analyze/quality; results[1] is the analyzer's
api_analyze_quality(req, results) ==
    Handle(req, results[1],
           [file_name |-> req.file_name, language |-> req.language,
            quality_score |-> results[1].value])

\* POST /api/analysis/analyze/issues
api_analyze_issues(req, results) ==
    Handle(req, results[1],
           [file_name |-> req.file_name, language |-> req.language,
            issues |-> results[1].value,
            total_issues |-> Len(results[1].value)])

\* POST /api/analysis/analyze/complexity
api_analyze_complexity(req, results) ==
    Handle(req, results[1],
           [file_name |-> req.file_name, language |-> req.language,
            complexity_metrics |-> results[1].value])

\* POST /api/analysis/analyze/architecture
api_analyze_architecture(req, results) ==
    Handle(req, results[1],
           [file_name |-> req.file_name, language |-> req.language,
            architecture_insights |-> results[1].value])

\* POST /api/analysis/analyze/formatting
api_analyze_formatting(req, results) ==
    Handle(req, results[1],
           [file_name |-> req.file_name, language |-> req.language,
            formatting_recommendations |-> results[1].value])

\* POST /api/analysis/analyze/debug: the set of possible responses
api_analyze_for_debugging(req, results, duration) ==
    {Handle(req, result, result.value) :
        result \in service_analyze_for_debugging(
                       results, req.language, req.file_name, duration)}

\* GET /api/analysis/supported-languages
get_supported_languages(tbl) ==
    Response(200, [supported_languages |-> supported_languages(tbl),
                   count |-> Len(supported_languages(tbl))])

(***************************************************************************)
(* Inputs                                                                  *)
(***************************************************************************)

MaxLines == 2
MaxDuration == 1

\* lines the generated texts are made of
LineChoices ==
    {S(""), S("# a"), S("def f(a):"), S(" if a: b = [("), S("g(x) { // c")}

\* Scenario A of the specification: the factorial snippet
FactorialSnippet ==
    S("def factorial(n):\n    if n <= 1:\n        return 1\n    return n * factorial(n - 1)\n")

\* Scenario B of the specification: a JavaScript loop that never ends
WhileTrueSnippet == S("while (true) {\n    console.log('loop');\n}")

\* Scenario C of the specification: a file opened and never closed
OpenSnippet == S("f = open('file.txt')")

\* the texts of test_nesting_depth
code_depth_1 == S("x = {}")
code_depth_3 == S("{[[()]]}")

\* a text in which each of the four architecture detectors finds its pattern
AllPatternsSnippet == S("getInstance(); createUser(); notify(); query; render")

\* a line of n characters
LineOf(char, n) == <<>> \o [i \in 1..n |-> char]

\* eight lines, six of them longer than 100 characters (lines 2, 3, 5, 6, 7
\* and 8), one of exactly 100 and one short
LongLinesSnippet ==
    Join(S("\n"),
         <<LineOf("-", 100), LineOf("-", 101), LineOf("-", 101), S("ab"),
           LineOf("-", 102), LineOf("-", 101), LineOf("-", 101),
           LineOf("-", 101)>>)

\* one line longer than 100 characters after one of exactly 100
OneLongLineSnippet == LineOf("-", 100) \o S("\n") \o LineOf("-", 101)

\* a class named as a factory, without any create*( / make*( / build*( call
FactoryClassSnippet == S("class WidgetFactory:\n    pass")

\* two declarations of one function name with different parameters
TwiceDeclaredSnippet == S("function f(a) {}\nfunction f(b, c) {}")

\* block comments over several lines and on one line, and line comments
CommentsSnippet == S("/* a\n// b\n\n*/\n// c\nx /* y */\nz\n  // d")

\* lines beginning with a tab
TabsSnippet == S("\tx = 1\n\ty = 2")

\* five lines without any semicolon
NoSemicolonSnippet == S("a\nb\nc\nd\ne")

ScenarioTexts ==
    {FactorialSnippet,
     LongLinesSnippet,
     OneLongLineSnippet,
     FactoryClassSnippet,
     TwiceDeclaredSnippet,
     CommentsSnippet,
     TabsSnippet,
     NoSemicolonSnippet,
     S(""),
     S(" \t\n\n  "),
     S("}}])(([[{{"),
     S("class A {\n/* c\n*/\nint f(int a) { return a; }\n}"),
     WhileTrueSnippet,
     OpenSnippet,
     code_depth_1,
     code_depth_3,
     AllPatternsSnippet,
     S("}{"),
     S("while True:\n    pass"),
     S("for (i = 0; i < n; ) { }"),
     S("for (i = 0; i < n; i++) { }"),
     S("with open('f') as g:\n    pass"),
     S("try {\n  db.connect(u);\n}"),
     S("s = new FileStream"),
     S("IF a ? b : c\nElse p ? q\nwhile x: if y: z")}

Texts ==
    {Join(S("\n"), lines) :
        lines \in UNION {[1..n -> LineChoices] : n \in 1..MaxLines}}
    \cup ScenarioTexts

Languages ==
    {S("python"), S("py"), S("javascript"), S("js"), S("typescript"), S("ts"),
     S("java"), S("cpp"), S("c++"), S("Python"), S("cobol"), S("")}

FileNames == {None, S("a.py")}

default_flags == [f \in all_flags |-> TRUE]

FlagChoices == {default_flags, [f \in all_flags |-> FALSE]}

Durations == 0..MaxDuration

(***************************************************************************)
(* One operation applied to one input                                      *)
(***************************************************************************)

Init ==
    /\ adapters = AdaptersTable
    /\ code \in Texts
    /\ language \in Languages
    /\ file_name = None
    /\ flags = default_flags
    /\ pc = "idle"
    /\ op = "none"
    /\ out = NoOutcome
    /\ invoked = <<>>
    /\ calls = <<>>

RECURSIVE adapters_after(_, _, _)
\* the alias table after the given analyzer methods ran
adapters_after(tbl, trace, lang) ==
    IF trace = <<>> THEN tbl
    ELSE adapters_after(
             IF Head(trace) \in factory_users
             THEN adapters_after_create(tbl, lang) ELSE tbl,
             Tail(trace), lang)

\* the operation named name is applied: its result, the analyzer methods it
\* entered, and the file_name and flags it was given
Apply(name, result, trace, fname, f) ==
    /\ pc = "idle"
    /\ pc' = "done"
    /\ op' = name
    /\ out' = result
    /\ invoked' = trace
    /\ file_name' = fname
    /\ flags' = f
    /\ adapters' = adapters_after(adapters, trace, language)
    /\ UNCHANGED <<code, language, calls>>

\* LanguageAdapterFactory.create(language)
Create ==
    /\ pc = "idle"
    /\ pc' = "done"
    /\ op' = "create"
    /\ out' = create(adapters, language)
    /\ invoked' = <<>>
    /\ adapters' = adapters_after_create(adapters, language)
    /\ UNCHANGED <<code, language, file_name, flags, calls>>

\* LanguageAdapterFactory.supported_languages()
SupportedLanguages ==
    Apply("supported_languages", Return(supported_languages(adapters)), <<>>,
          file_name, flags)

\* a method of the adapter create(language) returned
AdapterMethod(name, result) ==
    /\ pc = "idle"
    /\ create(adapters, language).kind = "return"
    /\ Apply(name, Return(result), <<>>, file_name, flags)

CountLines == AdapterMethod("count_lines", count_lines(code))

CountBlankLines == AdapterMethod("count_blank_lines", count_blank_lines(code))

ExtractFunctions ==
    AdapterMethod("extract_functions",
                  extract_functions(create(adapters, language).value, code))

ExtractClasses ==
    AdapterMethod("extract_classes",
                  extract_classes(create(adapters, language).value, code))

ExtractImports ==
    AdapterMethod("extract_imports",
                  extract_imports(create(adapters, language).value, code))

ExtractComments ==
    AdapterMethod("extract_comments",
                  extract_comments(create(adapters, language).value, code))

\* a public method of CodeAnalyzer
AnalyzerMethod(method, result) ==
    /\ pc = "idle"
    /\ Apply(method, result, <<method>>, file_name, flags)

AnalyzeQuality ==
    AnalyzerMethod("analyze_quality", analyze_quality(adapters, code, language))

AnalyzeIssues ==
    AnalyzerMethod("analyze_issues", analyze_issues(adapters, code, language))

AnalyzeComplexity ==
    AnalyzerMethod("analyze_complexity", analyze_complexity(code, language))

AnalyzeArchitecture ==
    AnalyzerMethod("analyze_architecture", analyze_architecture(code, language))

AnalyzeFormatting ==
    AnalyzerMethod("analyze_formatting", analyze_formatting(code, language))

AnalyzeForDebugging ==
    AnalyzerMethod("analyze_for_debugging",
                   analyze_for_debugging(code, language))

\* one way an operation can go: what it was given besides code and language,
\* what it answered and the analyzer methods it entered
Run(fname, f, result, trace) ==
    [file_name |-> fname, flags |-> f, out |-> result, invoked |-> trace]

\* the ways AnalysisService.analyze_full can go on a text: one per file_name
\* and per duration measured
analyze_full_runs(results, text, lang) ==
    {Run(name, default_flags,
         analyze_full(results, text, lang, name, duration),
         InvokedBy(full_steps, results)) :
        name \in FileNames, duration \in Durations}

\* the ways AnalysisService.analyze_for_debugging can go on a text
service_analyze_for_debugging_runs(results, lang) ==
    UNION {{Run(name, default_flags, result, InvokedBy(debug_steps, results)) :
               result \in service_analyze_for_debugging(results, lang, name,
                                                        duration)} :
              name \in FileNames, duration \in Durations}

\* the request bodies with the given code and language
Requests(text, lang) ==
    {[code |-> text, language |-> lang, file_name |-> name, flags |-> f] :
        name \in FileNames, f \in FlagChoices}

\* the ways POST /api/analysis/analyze can go
analyze_code_runs(results, text, lang) ==
    {Run(req.file_name, req.flags, analyze_code(req, results, duration),
         Entered(req, full_steps, results)) :
        req \in Requests(text, lang), duration \in Durations}

\* the ways a handler that calls one analyzer method can go
handler_runs(result, text, lang, method, Handler(_, _)) ==
    {Run(req.file_name, req.flags, Handler(req, <<result>>),
         Entered(req, <<method>>, <<result>>)) :
        req \in Requests(text, lang)}

\* the ways POST /api/analysis/analyze/debug can go
api_analyze_for_debugging_runs(results, text, lang) ==
    UNION {{Run(req.file_name, req.flags, response,
                Entered(req, debug_steps, results)) :
               response \in api_analyze_for_debugging(req, results, duration)} :
              req \in Requests(text, lang), duration \in Durations}

\* the operation named name goes one of the given ways
ApplyOne(name, runs) ==
    /\ pc = "idle"
    /\ \E run \in runs :
           Apply(name, run.out, run.invoked, run.file_name, run.flags)

\* AnalysisService.analyze_full(code, language, file_name)
AnalyzeFull ==
    ApplyOne("analyze_full",
             analyze_full_runs(full_results(adapters, code, language),
                               code, language))

\* AnalysisService.analyze_for_debugging(code, language, file_name)
ServiceAnalyzeForDebugging ==
    ApplyOne("service_analyze_for_debugging",
             service_analyze_for_debugging_runs(
                 debug_results(adapters, code, language), language))

\* POST /api/analysis/analyze
PostAnalyze ==
    ApplyOne("POST /analyze",
             analyze_code_runs(full_results(adapters, code, language),
                               code, language))

\* POST /api/analysis/analyze/quality
PostAnalyzeQuality ==
    ApplyOne("POST /analyze/quality",
             handler_runs(analyze_quality(adapters, code, language),
                          code, language, "analyze_quality",
                          api_analyze_quality))

\* POST /api/analysis/analyze/issues
PostAnalyzeIssues ==
    ApplyOne("POST /analyze/issues",
             handler_runs(analyze_issues(adapters, code, language),
                          code, language, "analyze_issues",
                          api_analyze_issues))

\* POST /api/analysis/analyze/complexity
PostAnalyzeComplexity ==
    ApplyOne("POST /analyze/complexity",
             handler_runs(analyze_complexity(code, language),
                          code, language, "analyze_complexity",
                          api_analyze_complexity))

\* POST /api/analysis/analyze/architecture
PostAnalyzeArchitecture ==
    ApplyOne("POST /analyze/architecture",
             handler_runs(analyze_architecture(code, language),
                          code, language, "analyze_architecture",
                          api_analyze_architecture))

\* POST /api/analysis/analyze/formatting
PostAnalyzeFormatting ==
    ApplyOne("POST /analyze/formatting",
             handler_runs(analyze_formatting(code, language),
                          code, language, "analyze_formatting",
                          api_analyze_formatting))

\* POST /api/analysis/analyze/debug
PostAnalyzeDebug ==
    ApplyOne("POST /analyze/debug",
             api_analyze_for_debugging_runs(
                 debug_results(adapters, code, language), code, language))

\* GET /api/analysis/supported-languages
GetSupportedLanguages ==
    Apply("GET /supported-languages", get_supported_languages(adapters), <<>>,
          file_name, flags)

Next ==
    \/ Create
    \/ SupportedLanguages
    \/ CountLines
    \/ CountBlankLines
    \/ ExtractFunctions
    \/ ExtractClasses
    \/ ExtractImports
    \/ ExtractComments
    \/ AnalyzeQuality
    \/ AnalyzeIssues
    \/ AnalyzeComplexity
    \/ AnalyzeArchitecture
    \/ AnalyzeFormatting
    \/ AnalyzeForDebugging
    \/ AnalyzeFull
    \/ ServiceAnalyzeForDebugging
    \/ PostAnalyze
    \/ PostAnalyzeQuality
    \/ PostAnalyzeIssues
    \/ PostAnalyzeComplexity
    \/ PostAnalyzeArchitecture
    \/ PostAnalyzeFormatting
    \/ PostAnalyzeDebug
    \/ GetSupportedLanguages

Spec == Init /\ [][Next]_vars

(***************************************************************************)
(* Invocations in progress at once on the shared service                   *)
(*                                                                         *)
(* analysis_service is one module-level object; every invocation goes      *)
(* through its analyzer's factory and so through the class attribute       *)
(* _adapters.  An invocation advances by one analyzer call at a time.      *)
(***************************************************************************)

CallIds == {"c1", "c2"}

ConcTexts == {S("# a\n# a"), S("if a:\n a = [1]")}

ConcLanguages == {S("python"), S("js"), S("cobol")}

service_methods == {"analyze_full", "analyze_for_debugging"}

\* the analyzer calls a service method makes, in program order
StepsOf(method) == IF method = "analyze_full" THEN full_steps ELSE debug_steps

\* an invocation that has made no analyzer call yet
NewCalls ==
    {[op |-> method, code |-> text, language |-> lang, file_name |-> name,
      results |-> <<>>, pc |-> "running", out |-> NoOutcome] :
        method \in service_methods, text \in ConcTexts,
        lang \in ConcLanguages, name \in FileNames}

InitConc ==
    /\ adapters = AdaptersTable
    /\ calls \in [CallIds -> NewCalls]
    /\ code = <<>>
    /\ language = <<>>
    /\ file_name = None
    /\ flags = default_flags
    /\ pc = "idle"
    /\ op = "none"
    /\ out = NoOutcome
    /\ invoked = <<>>

\* the analyzer call an invocation makes next
NextStep(call) == StepsOf(call.op)[Len(call.results) + 1]

\* the invocation after its next analyzer call gave the result: an exception
\* ends the invocation
Advance(call, result) ==
    [call EXCEPT !.results = @ \o <<result>>,
                 !.pc = IF result.kind = "raise" THEN "done" ELSE @,
                 !.out = IF result.kind = "raise" THEN result ELSE @]

\* an invocation makes its next analyzer call
CallStep(c) ==
    /\ calls[c].pc = "running"
    /\ Len(calls[c].results) < Len(StepsOf(calls[c].op))
    /\ calls' = [calls EXCEPT
                   ![c] = Advance(@, Invoke(adapters, NextStep(@), @.code,
                                            @.language))]
    /\ adapters' = IF NextStep(calls[c]) \in factory_users
                   THEN adapters_after_create(adapters, calls[c].language)
                   ELSE adapters
    /\ UNCHANGED <<code, language, file_name, flags, pc, op, out, invoked>>

\* what an invocation that made all its analyzer calls can return
Reports(call) ==
    IF call.op = "analyze_full"
    THEN {analyze_full(call.results, call.code, call.language, call.file_name,
                       duration) : duration \in Durations}
    ELSE UNION {service_analyze_for_debugging(call.results, call.language,
                                              call.file_name, duration) :
                   duration \in Durations}

\* an invocation reads the clock and returns its report
CallReturn(c) ==
    /\ calls[c].pc = "running"
    /\ Len(calls[c].results) = Len(StepsOf(calls[c].op))
    /\ \E report \in Reports(calls[c]) :
           calls' = [calls EXCEPT ![c] = [@ EXCEPT !.pc = "done",
                                                   !.out = report]]
    /\ UNCHANGED <<adapters, code, language, file_name, flags, pc, op, out,
                   invoked>>

NextConc == \E c \in CallIds : CallStep(c) \/ CallReturn(c)

SpecConc == InitConc /\ [][NextConc]_vars

(***************************************************************************)
(* Properties                                                              *)
(***************************************************************************)

\* the aliases the specification names, in the order of the table
alias_list ==
    <<S("python"), S("py"), S("javascript"), S("js"), S("typescript"),
      S("ts"), S("java"), S("cpp"), S("c++")>>

\* the lowercase form of the language is one of the aliases
Supported(lang) == Lower(lang) \in Range(alias_list)

\* the adapter variant the specification gives an alias
ClaimedVariant(lang) ==
    IF Lower(lang) \in {S("python"), S("py")} THEN "PythonAdapter"
    ELSE IF Lower(lang) \in {S("javascript"), S("js"), S("typescript"), S("ts")}
    THEN "JavaScriptAdapter"
    ELSE "JavaAdapter"

\* the message of the factory's error for a language
UnsupportedMessage(lang) ==
    S("Unsupported language: ") \o lang
      \o S(". Supported: python, py, javascript, js, typescript, ts, java, cpp, c++")

score_fields ==
    {"overall_score", "code_quality", "maintainability", "complexity",
     "duplication"}

analyzer_ops ==
    {"analyze_quality", "analyze_issues", "analyze_complexity",
     "analyze_architecture", "analyze_formatting", "analyze_for_debugging"}

post_ops ==
    {"POST /analyze", "POST /analyze/quality", "POST /analyze/issues",
     "POST /analyze/complexity", "POST /analyze/architecture",
     "POST /analyze/formatting", "POST /analyze/debug"}

\* C1: for every supported language alias and every code text, analyze_quality
\* returns, and each of its five fields (overall_score, code_quality,
\* maintainability, complexity, duplication) lies in [0,100].
C1_QualityFieldsInRange ==
    (op = "analyze_quality" /\ Supported(language)) =>
        /\ out.kind = "return"
        /\ DOMAIN out.value = score_fields
        /\ \A f \in score_fields :
               RLe(Num(0), out.value[f]) /\ RLe(out.value[f], Num(100))

\* C1 happens: a supported alias, maintainability capped at 100 and a
\* duplication score strictly inside the interval
C1_Witness ==
    /\ op = "analyze_quality"
    /\ Supported(language)
    /\ out.kind = "return"
    /\ out.value.maintainability = Num(100)
    /\ RLt(Num(0), out.value.duplication)
    /\ RLt(out.value.duplication, Num(100))

\* C2: create(language) raises ValueError for every language whose lowercase
\* form is not an alias; the message names the language and ends with the
\* list of all supported aliases; no adapter is returned.
C2_UnsupportedLanguageRaises ==
    (op = "create" /\ ~Supported(language)) =>
        /\ out.kind = "raise"
        /\ out.exc = "ValueError"
        /\ out.msg = UnsupportedMessage(language)
        /\ \A i \in 1..Len(alias_list) : Contains(out.msg, alias_list[i])

\* C2 happens: create("cobol") raised
C2_Witness ==
    /\ op = "create"
    /\ language = S("cobol")
    /\ out.kind = "raise"

\* C3: alias resolution ignores letter case and maps python/py to the Python
\* variant, javascript/js/typescript/ts to the JavaScript variant and
\* java/cpp/c++ to the Java variant; what the adapter of an alias extracts
\* from a text (functions, classes, imports, comments) is what its variant
\* extracts, so two aliases of one variant extract the same.
C3_AliasResolution ==
    Supported(language) =>
        /\ op = "create" => out = Return(ClaimedVariant(language))
        /\ op = "extract_functions" =>
               out = Return(extract_functions(ClaimedVariant(language), code))
        /\ op = "extract_classes" =>
               out = Return(extract_classes(ClaimedVariant(language), code))
        /\ op = "extract_imports" =>
               out = Return(extract_imports(ClaimedVariant(language), code))
        /\ op = "extract_comments" =>
               out = Return(extract_comments(ClaimedVariant(language), code))

\* C3 happens: the adapter of "Python" (capitalised) extracted a function
C3_Witness ==
    /\ op = "extract_functions"
    /\ language = S("Python")
    /\ out.kind = "return"
    /\ out.value # <<>>

\* C4: supported_languages() returns python, py, javascript, js, typescript,
\* ts, java, cpp, c++ in this order, without duplicates, and these are exactly
\* the lowercase identifiers create() accepts.
C4_SupportedLanguagesExact ==
    /\ op = "supported_languages" =>
           /\ out = Return(alias_list)
           /\ \A i, j \in 1..Len(out.value) :
                  out.value[i] = out.value[j] => i = j
           /\ S("python") \in Range(out.value)
           /\ S("javascript") \in Range(out.value)
    /\ op = "create" =>
           (out.kind = "return"
               <=> Lower(language) \in Range(supported_languages(adapters)))

\* C4 happens: supported_languages() returned its nine aliases
C4_Witness ==
    /\ op = "supported_languages"
    /\ out.kind = "return"
    /\ Len(out.value) = Len(alias_list)

report_fields ==
    {"quality_score", "issues", "complexity_metrics", "architecture_insights",
     "formatting_recommendations"}

SameInput(a, b) ==
    /\ a.code = b.code
    /\ a.language = b.language
    /\ a.file_name = b.file_name

\* two finished analyze_full invocations
BothFullDone(a, b) ==
    /\ calls[a].op = "analyze_full"
    /\ calls[b].op = "analyze_full"
    /\ calls[a].pc = "done"
    /\ calls[b].pc = "done"

\* C5: two analyze_full calls on the same (code, language, file_name), however
\* their analyzer calls interleave, both fail alike or both return reports
\* with the same quality_score, issues, complexity_metrics,
\* architecture_insights and formatting_recommendations.
C5_AnalyzeFullRepeatable ==
    \A a, b \in CallIds :
        (BothFullDone(a, b) /\ SameInput(calls[a], calls[b])) =>
            /\ calls[a].out.kind = calls[b].out.kind
            /\ calls[a].out.kind = "raise" => calls[a].out = calls[b].out
            /\ calls[a].out.kind = "return" =>
                   \A f \in report_fields :
                       calls[a].out.value[f] = calls[b].out.value[f]

\* C5 happens: two calls on the same input returned reports that differ in
\* the duration
C5_Witness ==
    /\ BothFullDone("c1", "c2")
    /\ SameInput(calls["c1"], calls["c2"])
    /\ calls["c1"].out.kind = "return"
    /\ calls["c2"].out.kind = "return"
    /\ calls["c1"].out.value.analysis_duration_ms
           # calls["c2"].out.value.analysis_duration_ms

\* C6: for a language whose lowercase form is not an alias, analyze_full and
\* analyze_for_debugging of the service raise the factory's ValueError with
\* its message unchanged (analyze_full at its first analyzer call), and
\* POST /api/analysis/analyze answers 400 with that message, never 500.
C6_UnsupportedLanguagePropagates ==
    ~Supported(language) =>
        /\ op = "analyze_full" =>
               /\ out = Raise("ValueError", UnsupportedMessage(language))
               /\ invoked = <<"analyze_quality">>
        /\ op = "service_analyze_for_debugging" =>
               out = Raise("ValueError", UnsupportedMessage(language))
        /\ op = "POST /analyze" =>
               /\ out.status # 500
               /\ code # <<>> =>
                      /\ out.status = 400
                      /\ out.body = [detail |-> UnsupportedMessage(language)]

\* C6 happens: POST /analyze with language "cobol" was answered 400
C6_Witness ==
    /\ op = "POST /analyze"
    /\ language = S("cobol")
    /\ code # <<>>
    /\ out.status = 400

\* C7: a request whose code is the empty string is answered 422 and no
\* analyzer method is entered, at every POST endpoint.
C7_EmptyCodeRejected ==
    (op \in post_ops /\ code = <<>>) =>
        /\ out.status = 422
        /\ invoked = <<>>

\* C7 happens: POST /analyze with empty code and a supported language
C7_Witness ==
    /\ op = "POST /analyze"
    /\ code = <<>>
    /\ language = S("python")
    /\ out.status = 422

\* every line of the text is blank
AllBlank(text) == count_blank_lines(text) = Len(SplitLines(text))

\* C8: for every supported alias and every text, the six public methods of
\* the analyzer return and raise nothing; on a text with no code line
\* analyze_quality computes maintainability with a documentation ratio of 0.
C8_AnalyzerTotal ==
    (op \in analyzer_ops /\ Supported(language)) =>
        /\ out.kind = "return"
        /\ (op = "analyze_quality" /\ AllBlank(code)) =>
               out.value.maintainability =
                   RAdd(Num(50),
                        RMul(RSub(Num(100), out.value.complexity), Frac(1, 2)))

\* C8 happens: analyze_quality returned on a whitespace-only text
C8_Witness ==
    /\ op = "analyze_quality"
    /\ code = S(" \t\n\n  ")
    /\ language = S("java")
    /\ out.kind = "return"

\* what an invocation returns when it runs alone on the table as constructed
Alone(call) ==
    Reports([call EXCEPT !.results =
                 IF call.op = "analyze_full"
                 THEN full_results(AdaptersTable, call.code, call.language)
                 ELSE debug_results(AdaptersTable, call.code, call.language)])

\* C9: however the analyzer calls of the invocations interleave, the alias
\* table stays as constructed and every finished invocation has the outcome
\* (apart from the duration) it has when run alone.
C9_InvocationsIndependent ==
    /\ adapters = AdaptersTable
    /\ \A c \in CallIds :
           calls[c].pc = "done" => calls[c].out \in Alone(calls[c])

\* C9 happens: an analyze_full and an analyze_for_debugging on different
\* inputs both returned
C9_Witness ==
    /\ calls["c1"].op = "analyze_full"
    /\ calls["c2"].op = "analyze_for_debugging"
    /\ calls["c1"].pc = "done"
    /\ calls["c2"].pc = "done"
    /\ calls["c1"].code # calls["c2"].code
    /\ calls["c1"].language # calls["c2"].language
    /\ calls["c1"].out.kind = "return"
    /\ calls["c2"].out.kind = "return"

\* analyze_complexity was applied to the factorial snippet as "python"
ScenarioA ==
    /\ op = "analyze_complexity"
    /\ code = FactorialSnippet
    /\ language = S("python")

\* C10 as stated: Scenario A reports lines_of_code 5, nesting_depth 0 and
\* cyclomatic_complexity 0.2.
C10_AsStated ==
    ScenarioA =>
        /\ out.kind = "return"
        /\ out.value.lines_of_code = 5
        /\ out.value.nesting_depth = 0
        /\ out.value.cyclomatic_complexity = Frac(2, 10)

\* C10 amended: Scenario A reports lines_of_code 5, nesting_depth 1 (the
\* parentheses of the snippet count) and cyclomatic_complexity 0.2.
C10_ScenarioA ==
    ScenarioA =>
        /\ out.kind = "return"
        /\ out.value.lines_of_code = 5
        /\ out.value.nesting_depth = 1
        /\ out.value.cyclomatic_complexity = Frac(2, 10)

\* C10 happens: analyze_complexity returned on the snippet
C10_Witness ==
    /\ ScenarioA
    /\ out.kind = "return"
    /\ out.value.nesting_depth > 0

\* C11 as stated: the nesting depth of "{[[()]]}" is 3, that of "x = {}" is 1,
\* and the former is strictly greater than the latter.
C11_AsStated ==
    (op = "analyze_complexity" /\ code \in {code_depth_3, code_depth_1}) =>
        /\ out.kind = "return"
        /\ out.value.nesting_depth = (IF code = code_depth_3 THEN 3 ELSE 1)
        /\ code = code_depth_3 =>
               out.value.nesting_depth >
                   calculate_nesting_depth(code_depth_1, language)

\* C11 amended: the nesting depth of "{[[()]]}" is 4 (four brackets are open
\* at its innermost point), that of "x = {}" is 1, and the former is strictly
\* greater than the latter.
C11_NestingDepthOfTestTexts ==
    (op = "analyze_complexity" /\ code \in {code_depth_3, code_depth_1}) =>
        /\ out.kind = "return"
        /\ out.value.nesting_depth = (IF code = code_depth_3 THEN 4 ELSE 1)
        /\ code = code_depth_3 =>
               out.value.nesting_depth >
                   calculate_nesting_depth(code_depth_1, language)

\* C11 happens: analyze_complexity returned on "{[[()]]}"
C11_Witness ==
    /\ op = "analyze_complexity"
    /\ code = code_depth_3
    /\ out.kind = "return"
    /\ out.value.nesting_depth > 1

\* the lines of the text are pairwise different
LinesDistinct(text) ==
    LET lines == SplitLines(text) IN
    \A i, j \in 1..Len(lines) : lines[i] = lines[j] => i = j

\* C12 as stated: on every blank-only text the duplication score is 100 and
\* the nesting depth is 0.
C12_AsStated ==
    (op \in {"analyze_complexity", "analyze_quality"} /\ AllBlank(code)) =>
        /\ op = "analyze_complexity" =>
               out.kind = "return" /\ out.value.nesting_depth = 0
        /\ (op = "analyze_quality" /\ Supported(language)) =>
               out.kind = "return" /\ out.value.duplication = Num(100)

\* C12 amended: on every blank-only text the nesting depth is 0, and the
\* duplication score is 100 exactly when no two lines of the text are equal
\* (the empty text, one blank line, blank lines that differ in their
\* whitespace); with repeated lines it is below 100.
C12_BlankOnlyInput ==
    (op \in {"analyze_complexity", "analyze_quality"} /\ AllBlank(code)) =>
        /\ op = "analyze_complexity" =>
               out.kind = "return" /\ out.value.nesting_depth = 0
        /\ (op = "analyze_quality" /\ Supported(language)) =>
               /\ out.kind = "return"
               /\ LinesDistinct(code) <=> out.value.duplication = Num(100)
               /\ ~LinesDistinct(code) => RLt(out.value.duplication, Num(100))

\* C12 happens: analyze_quality returned 100 on a text of three different
\* blank lines
C12_Witness ==
    /\ op = "analyze_quality"
    /\ code = S(" \t\n\n  ")
    /\ Supported(language)
    /\ out.kind = "return"
    /\ out.value.duplication = Num(100)

\* the characters a..b of s are all whitespace (none when a > b)
Gap(s, a, b) == \A q \in a..b : IsSpace(s[q])

\* somewhere in s: the word w, whitespace (at least least of it), then one of
\* the words of next
Sequel(s, w, least, next) ==
    \E p \in 1..Len(s) :
        /\ OccursAt(s, w, p)
        /\ \E q \in (p + Len(w) + least)..(Len(s) + 1) :
               /\ Gap(s, p + Len(w), q - 1)
               /\ \E n \in next : OccursAt(s, n, q)

\* `while True:` with any whitespace between the words, `True` or `true`
HasWhileTruePy(s) ==
    \E p \in 1..Len(s) :
        /\ OccursAt(s, S("while"), p)
        /\ \E q \in (p + 6)..Len(s) :
               /\ Gap(s, p + 5, q - 1)
               /\ OccursAt(s, S("True"), q) \/ OccursAt(s, S("true"), q)
               /\ \E r \in (q + 4)..Len(s) :
                      Gap(s, q + 4, r - 1) /\ s[r] = ":"

\* `while (true)` with any whitespace between the tokens, `True` or `true`
HasWhileTrueJs(s) ==
    \E p \in 1..Len(s) :
        /\ OccursAt(s, S("while"), p)
        /\ \E a \in (p + 5)..Len(s) :
               /\ Gap(s, p + 5, a - 1)
               /\ s[a] = "("
               /\ \E q \in (a + 1)..Len(s) :
                      /\ Gap(s, a + 1, q - 1)
                      /\ OccursAt(s, S("True"), q) \/ OccursAt(s, S("true"), q)
                      /\ \E r \in (q + 4)..Len(s) :
                             Gap(s, q + 4, r - 1) /\ s[r] = ")"

\* `for (...;...;)`: two clauses closed by ";" and nothing but whitespace
\* before the ")"
HasForWithoutIncrement(s) ==
    \E p \in 1..Len(s) :
        /\ OccursAt(s, S("for"), p)
        /\ \E a \in (p + 3)..Len(s) :
               /\ Gap(s, p + 3, a - 1)
               /\ s[a] = "("
               /\ \E b \in {q \in (a + 1)..Len(s) : s[q] = ";"} :
                      /\ \A q \in (a + 1)..(b - 1) : s[q] # ";"
                      /\ \E c \in {q \in (b + 1)..Len(s) : s[q] = ";"} :
                             /\ \A q \in (b + 1)..(c - 1) : s[q] # ";"
                             /\ \E d \in (c + 1)..Len(s) :
                                    Gap(s, c + 1, d - 1) /\ s[d] = ")"

InfiniteLoopIndicator(s) ==
    HasWhileTruePy(s) \/ HasWhileTrueJs(s) \/ HasForWithoutIncrement(s)

\* the insights of a list whose potential_issue is the given one
InsightsOn(insights, issue) ==
    SelectSeq(insights, LAMBDA i : i.potential_issue = issue)

\* C13: analyze_for_debugging returns exactly one infinite-loop insight, of
\* severity "error", when the text holds `while True:`, `while (true)` or a
\* `for (...;...;)` without increment clause, and none otherwise; Scenario B
\* (the JavaScript `while (true) { ... }` snippet) yields it.
C13_InfiniteLoopInsight ==
    op = "analyze_for_debugging" =>
        /\ out.kind = "return"
        /\ LET loops == InsightsOn(out.value, "Potential infinite loop detected")
           IN /\ Len(loops) = (IF InfiniteLoopIndicator(code) THEN 1 ELSE 0)
              /\ \A k \in 1..Len(loops) : loops[k].severity = "error"
              /\ (code = WhileTrueSnippet /\ language = S("javascript")) =>
                     Len(loops) = 1

\* C13 happens: Scenario B returned its insight
C13_Witness ==
    /\ op = "analyze_for_debugging"
    /\ code = WhileTrueSnippet
    /\ language = S("javascript")
    /\ out.kind = "return"
    /\ Len(InsightsOn(out.value, "Potential infinite loop detected")) = 1

\* an acquisition indicator: `open(`, `.connect(` or `new FileStream`
HasAcquisition(s) ==
    \/ Sequel(s, S("open"), 0, {S("(")})
    \/ Sequel(s, S(".connect"), 0, {S("(")})
    \/ Sequel(s, S("new"), 1, {S("FileStream")})

\* a scoped-resource construct: `with `, `try {` or `finally {`
HasScopedResource(s) ==
    \/ \E p \in 1..Len(s) : OccursAt(s, S("with"), p) /\ IsSpace(CharAt(s, p + 4))
    \/ Sequel(s, S("try"), 0, {S("{")})
    \/ Sequel(s, S("finally"), 0, {S("{")})

\* C14: analyze_for_debugging returns the resource-leak insight (once) if
\* and only if the text holds an acquisition indicator and no scoped-resource
\* construct anywhere; Scenario C (`f = open('file.txt')`) yields it.
C14_ResourceLeakInsight ==
    op = "analyze_for_debugging" =>
        /\ out.kind = "return"
        /\ LET leaks == InsightsOn(out.value,
                             "Potential resource leak (file, connection, etc.)")
           IN /\ Len(leaks) =
                     (IF HasAcquisition(code) /\ ~HasScopedResource(code)
                      THEN 1 ELSE 0)
              /\ code = OpenSnippet => Len(leaks) = 1

\* C14 happens: an open( next to a `with ` was not reported
C14_Witness ==
    /\ op = "analyze_for_debugging"
    /\ code = S("with open('f') as g:\n    pass")
    /\ out.kind = "return"
    /\ InsightsOn(out.value,
                  "Potential resource leak (file, connection, etc.)") = <<>>

\* an optional field of a response that was left out (None)
IsNone(v) == DOMAIN v = DOMAIN None

\* C15: when a flag of the request is false, the 200 response of
\* POST /api/analysis/analyze does not hold the result of that analysis: no
\* quality score, or an empty list of issues, architecture insights or
\* formatting recommendations.
C15_FlagsDisableAnalyses ==
    (op = "POST /analyze" /\ out.status = 200) =>
        /\ ~flags["analyze_quality"] => IsNone(out.body.quality_score)
        /\ ~flags["analyze_issues"] => out.body.issues = <<>>
        /\ ~flags["analyze_architecture"] => out.body.architecture_insights = <<>>
        /\ ~flags["analyze_formatting"] =>
               out.body.formatting_recommendations = <<>>

\* the patterns analyze_architecture reports, in its order, and their
\* confidences
pattern_order ==
    <<"Singleton Pattern", "Factory Pattern", "Observer Pattern", "Mixed Concerns">>
pattern_confidence ==
    <<Frac(85, 100), Frac(80, 100), Frac(75, 100), Frac(70, 100)>>

\* the place of a pattern in pattern_order, 0 when it is none of them
PatternRank(pattern) ==
    IF \E k \in 1..Len(pattern_order) : pattern_order[k] = pattern
    THEN CHOOSE k \in 1..Len(pattern_order) : pattern_order[k] = pattern
    ELSE 0

\* C16: analyze_architecture returns zero to four insights, at most one per
\* pattern, in the order Singleton, Factory, Observer, Mixed Concerns, each
\* with its fixed confidence 0.85, 0.80, 0.75, 0.70, which lies in [0,1].
C16_ArchitectureInsightsBounded ==
    op = "analyze_architecture" =>
        /\ out.kind = "return"
        /\ Len(out.value) <= 4
        /\ \A k \in 1..Len(out.value) :
               LET rank == PatternRank(out.value[k].pattern_detected) IN
               /\ rank > 0
               /\ out.value[k].confidence = pattern_confidence[rank]
               /\ RLe(Num(0), out.value[k].confidence)
               /\ RLe(out.value[k].confidence, Num(1))
               /\ \A l \in (k + 1)..Len(out.value) :
                      rank < PatternRank(out.value[l].pattern_detected)

\* C16 happens: all four detectors found their pattern in one text
C16_Witness ==
    /\ op = "analyze_architecture"
    /\ code = AllPatternsSnippet
    /\ out.kind = "return"
    /\ Len(out.value) = 4

\* the text without its n characters from position p on
Without(s, p, n) == SubSeq(s, 1, p - 1) \o SubSeq(s, p + n, Len(s))

\* the places (keyword, position) where a decision keyword stands in the
\* text as a whole word, in any letter case
KeywordPlaces(s) ==
    LET low == Lower(s) IN
    {kp \in (1..Len(decision_words)) \X (1..Len(s)) :
        WordEnd(low, decision_words[kp[1]], kp[2]) > 0}

\* C17: a text B that is a text A with one more decision-keyword occurrence,
\* and otherwise the same, has cyclomatic(B) >= cyclomatic(A), strictly
\* greater while cyclomatic(B) is below the clamp of 100.  (B is the text
\* analysed, A is B with one of its keyword occurrences taken out.)
C17_CyclomaticMonotonic ==
    (op = "analyze_complexity" /\ out.kind = "return") =>
        \A kp \in KeywordPlaces(code) :
            LET A == Without(code, kp[2], Len(decision_words[kp[1]]))
                a == calculate_cyclomatic_complexity(A, language)
                b == out.value.cyclomatic_complexity
            IN /\ RLe(a, b)
               /\ RLt(b, Num(100)) => RLt(a, b)

\* C17 happens: analyze_complexity returned on a text with several
\* occurrences of one keyword
C17_Witness ==
    /\ op = "analyze_complexity"
    /\ out.kind = "return"
    /\ \E kp, kq \in KeywordPlaces(code) : kp[1] = kq[1] /\ kp[2] # kq[2]

openers == {"{", "(", "["}
closers == {"}", "]", ")"}

\* the states of the scan of text: before[i] is the state in which character
\* i is met, after[i] the state it leaves
ScanHolds(text, before, after, result) ==
    /\ \A i \in 1..Len(text) :
           /\ after[i].current_depth >= 0
           /\ after[i].max_depth >= before[i].max_depth
           /\ after[i].max_depth >= after[i].current_depth
           /\ text[i] \in openers =>
                  after[i].current_depth = before[i].current_depth + 1
           /\ (text[i] \in closers /\ before[i].current_depth > 0) =>
                  after[i].current_depth = before[i].current_depth - 1
           /\ (text[i] \in closers /\ before[i].current_depth = 0) =>
                  after[i].current_depth = 0
           /\ text[i] \notin openers \cup closers => after[i] = before[i]
    /\ result = Max({0} \cup {after[i].current_depth : i \in 1..Len(text)})

\* C18: during the scan of _calculate_nesting_depth the counter is never
\* negative, the running maximum never decreases and is never below the
\* counter, and the result is the largest value the counter reached; any
\* opener adds one and any closer takes one off whatever their types, a
\* closer met at depth 0 leaves the counter at 0, so "}{" gives 1.
C18_NestingScanInvariant ==
    (op = "analyze_complexity" /\ out.kind = "return") =>
        /\ ScanHolds(code,
                     <<NestingScan(code, 0)>>
                         \o NestingTrace(code, NestingScan(code, 0), 1, Len(code)),
                     NestingTrace(code, NestingScan(code, 0), 1, Len(code)),
                     out.value.nesting_depth)
        /\ code = S("}{") => out.value.nesting_depth = 1

\* C18 happens: an opener after a surplus closer was counted from 0
C18_Witness ==
    /\ op = "analyze_complexity"
    /\ code = S("}{")
    /\ out.kind = "return"
    /\ out.value.nesting_depth = 1

\* w stands in s at p as a whole word, in any letter case
WholeWordAt(s, w, p) ==
    /\ p + Len(w) - 1 <= Len(s)
    /\ \A i \in 1..Len(w) : LowerChar(s[p + i - 1]) = w[i]
    /\ p = 1 \/ ~IsWord(s[p - 1])
    /\ p + Len(w) > Len(s) \/ ~IsWord(s[p + Len(w)])

\* the number of whole-word occurrences of the decision keywords
KeywordOccurrences(s) ==
    Cardinality({kp \in (1..Len(decision_words)) \X (1..Len(s)) :
                    WholeWordAt(s, decision_words[kp[1]], kp[2])})

\* the number of matches of the ternary shape: the lines with a "?" that has
\* a ":" after it (one match a line, from the first such "?" to the last ":")
TernaryMatches(s) ==
    LET lines == SplitLines(s) IN
    Cardinality({n \in 1..Len(lines) :
                    \E a, b \in 1..Len(lines[n]) :
                        a < b /\ lines[n][a] = "?" /\ lines[n][b] = ":"})

\* C19: cyclomatic complexity is min(100, (1 + N) / 10), N being the number
\* of whole-word occurrences, in any letter case, of if, else, elif, for,
\* while, case, catch plus the matches of the ternary shape; the language
\* argument has no influence (the value is the same function of the text
\* whatever language the method was called with).
C19_CyclomaticFormula ==
    (op = "analyze_complexity" /\ out.kind = "return") =>
        /\ out.value.cyclomatic_complexity =
               RMin(Num(100),
                    Frac(1 + KeywordOccurrences(code) + TernaryMatches(code), 10))

\* C19 happens: upper-case keywords and a ternary were counted
C19_Witness ==
    /\ op = "analyze_complexity"
    /\ code = S("IF a ? b : c\nElse p ? q\nwhile x: if y: z")
    /\ language = S("cobol")
    /\ out.kind = "return"
    /\ out.value.cyclomatic_complexity = Frac(6, 10)

\* all lines of the text are the same
LinesEqual(text) ==
    LET lines == SplitLines(text) IN
    \A i, j \in 1..Len(lines) : lines[i] = lines[j]

\* 100 x unique / total
UniqueShare(text) ==
    LET lines == SplitLines(text) IN
    Frac(100 * Cardinality({lines[i] : i \in 1..Len(lines)}), Len(lines))

\* the texts whose lines are all equal: their numbers of lines and scores
EqualLinedScores ==
    {<<Len(SplitLines(other)), calculate_duplication_score(other).value>> :
        other \in {text \in Texts : LinesEqual(text)}}

\* the scores of the texts of as many lines as text whose lines are all equal
EqualLined(text) ==
    {ls[2] : ls \in {e \in EqualLinedScores : e[1] = Len(SplitLines(text))}}

\* C20 as stated: the duplication score is 100 x unique / total over the
\* lines split on line breaks and compared verbatim, it lies in [0,100], and
\* a text whose lines are all distinct scores strictly higher than a text of
\* the same length whose lines are all equal.
C20_AsStated ==
    (op = "analyze_quality" /\ out.kind = "return") =>
        /\ out.value.duplication = UniqueShare(code)
        /\ RLe(Num(0), out.value.duplication)
        /\ RLe(out.value.duplication, Num(100))
        /\ LinesDistinct(code) =>
               \A score \in EqualLined(code) :
                   RLt(score, out.value.duplication)

\* C20 amended: as stated, the comparison being between texts of at least
\* two lines (a one-line text is both all distinct and all equal, and
\* scores 100).
C20_DuplicationScore ==
    (op = "analyze_quality" /\ out.kind = "return") =>
        /\ out.value.duplication = UniqueShare(code)
        /\ RLe(Num(0), out.value.duplication)
        /\ RLe(out.value.duplication, Num(100))
        /\ (LinesDistinct(code) /\ Len(SplitLines(code)) >= 2) =>
               \A score \in EqualLined(code) :
                   RLt(score, out.value.duplication)

\* C20 happens: a text of two different lines was scored, and there are
\* texts of two equal lines to compare it with
C20_Witness ==
    /\ op = "analyze_quality"
    /\ out.kind = "return"
    /\ Len(SplitLines(code)) = 2
    /\ LinesDistinct(code)
    /\ EqualLined(code) # {}
    /\ out.value.duplication = Num(100)

\* the quality formulas on a text whose counts and scores are given
StatedDocumentationRatio(commentLines, codeLines) ==
    IF codeLines = 0 THEN Num(0)
    ELSE RMul(Frac(commentLines, codeLines), Num(100))

StatedMaintainability(documentationRatio, complexityScore) ==
    RMin(Num(100),
         RAdd(RAdd(Num(50), documentationRatio),
              RMul(RSub(Num(100), complexityScore), Frac(5, 10))))

StatedCodeQuality(totalLines, complexityScore, duplicationScore) ==
    RMax(Num(0),
         RSub(Num(100),
              RAdd(RAdd(RMul(Frac(totalLines, 1000), Num(5)),
                        RMul(complexityScore, Frac(3, 10))),
                   RMul(RSub(Num(100), duplicationScore), Frac(2, 10)))))

StatedOverall(codeQuality, maintainability, duplicationScore) ==
    RDiv(RAdd(RAdd(codeQuality, maintainability), duplicationScore), Num(3))

QualityAsStated(scores, totalLines, blankLines, commentLines, complexityScore,
                duplicationScore) ==
    LET documentationRatio ==
            StatedDocumentationRatio(commentLines, totalLines - blankLines)
        maintainability ==
            StatedMaintainability(documentationRatio, complexityScore)
        codeQuality ==
            StatedCodeQuality(totalLines, complexityScore, duplicationScore)
    IN /\ scores.maintainability = maintainability
       /\ scores.code_quality = codeQuality
       /\ scores.overall_score =
              StatedOverall(codeQuality, maintainability, duplicationScore)
       /\ scores.complexity = complexityScore
       /\ scores.duplication = duplicationScore

\* C21: the scores analyze_quality returns are the stated formulas on the
\* same text: documentationRatio = commentLines / codeLines x 100 (0 when
\* codeLines = totalLines - blankLines is 0), maintainability = min(100, 50 +
\* documentationRatio + (100 - complexityScore) x 0.5), codeQuality = max(0,
\* 100 - (totalLines/1000 x 5 + complexityScore x 0.3 + (100 -
\* duplicationScore) x 0.2)), overall = (codeQuality + maintainability +
\* duplicationScore) / 3, complexityScore being the cyclomatic complexity,
\* which is also the complexity field.
C21_QualityFormulas ==
    (op = "analyze_quality" /\ out.kind = "return") =>
        QualityAsStated(out.value,
                        Len(SplitLines(code)),
                        count_blank_lines(code),
                        Len(extract_comments(create(adapters, language).value, code)),
                        calculate_cyclomatic_complexity(code, language),
                        calculate_duplication_score(code).value)

\* C21 happens: scores returned for a text with comment lines, code lines
\* and a decision point
C21_Witness ==
    /\ op = "analyze_quality"
    /\ out.kind = "return"
    /\ Len(extract_comments(create(adapters, language).value, code)) > 0
    /\ Len(SplitLines(code)) > count_blank_lines(code)
    /\ RLt(Frac(1, 10), out.value.complexity)
    /\ RLt(out.value.code_quality, Num(100))

\* the style issues of a list of issues, in the order of the list
StyleIssues(issues) == SelectSeq(issues, LAMBDA issue : issue.issue_type = "style")

\* the numbers of the lines of text longer than 100 characters
LongLines(text) ==
    LET lines == SplitLines(text) IN
    {i \in 1..Len(lines) : Len(lines[i]) > 100}

StyleIssuesAsStated(lines, long, style) ==
    /\ Len(style) = Min({5, Cardinality(long)})
    /\ \A j \in 1..Len(style) :
           /\ style[j].severity = "info"
           /\ \E n \in long :
                  /\ style[j].line_number = Some(n)
                  /\ style[j].message =
                         S("Line exceeds 100 characters (")
                             \o IntToStr(Len(lines[n])) \o S(" chars)")
                  /\ \A i \in long :
                         i < n => \E h \in 1..(j - 1) :
                                      style[h].line_number = Some(i)
           /\ \A h \in 1..(j - 1) :
                  style[h].line_number[1] < style[j].line_number[1]
    /\ \A i \in 1..Len(lines) :
           Len(lines[i]) = 100 =>
               \A j \in 1..Len(style) : style[j].line_number # Some(i)

\* C22: style detection reports exactly min(5, k) issues, k being the number
\* of lines longer than 100 characters: the long lines with the smallest line
\* numbers, in ascending line order, each with severity info, its 1-based
\* line number and its length; a line of exactly 100 characters is not
\* reported.
C22_StyleIssues ==
    (op = "analyze_issues" /\ out.kind = "return") =>
        StyleIssuesAsStated(SplitLines(code), LongLines(code),
                            StyleIssues(out.value))

\* C22 happens: issues reported for a text with more than five long lines,
\* a short line between them and a line of exactly 100 characters
C22_Witness ==
    /\ op = "analyze_issues"
    /\ out.kind = "return"
    /\ Cardinality(LongLines(code)) > 5
    /\ \E i \in 1..Len(SplitLines(code)) : Len(SplitLines(code)[i]) = 100
    /\ \E i \in LongLines(code) : i - 1 \notin LongLines(code) /\ i > 2
    /\ Len(StyleIssues(out.value)) = 5

\* a declaration "class <name>" at p whose name contains Factory
FactoryNamedClassAt(text, p) ==
    LET q == SkipSpace(text, p + 5)
        e == SkipWord(text, q)
    IN /\ OccursAt(text, S("class"), p)
       /\ q > p + 5
       /\ \E r \in q..(e - 7) : OccursAt(text, S("Factory"), r)

\* the Factory indicators: a call create*(, make*( or build*(, or a class
\* whose name contains Factory
FactoryIndicator(text) ==
    \/ \E w \in {S("create"), S("make"), S("build")} :
           \E p \in 1..Len(text) : PrefixedCallEnd(text, w, p) > 0
    \/ \E p \in 1..Len(text) : FactoryNamedClassAt(text, p)

\* C23: the Factory insight is reported whenever the text contains any
\* Factory indicator, a class whose name contains Factory (class
\* WidgetFactory) included, even when no create*(, make*( or build*( call
\* is present.
C23_FactoryInsight ==
    (op = "analyze_architecture" /\ out.kind = "return") =>
        (FactoryIndicator(code) =>
            \E k \in 1..Len(out.value) :
                out.value[k].pattern_detected = "Factory Pattern")

\* the family the formatting advisor gives a language string
FormattingFamily(lang) ==
    IF Lower(lang) \in {S("python"), S("py")} THEN "python"
    ELSE IF Lower(lang) \in {S("javascript"), S("js"), S("typescript"), S("ts")}
    THEN "javascript"
    ELSE IF Lower(lang) = S("java") THEN "java"
    ELSE "unknown"

\* some line of the text begins with a tab
TabIndented(lines) ==
    \E i \in 1..Len(lines) : Len(lines[i]) > 0 /\ lines[i][1] = "\t"

\* the lines followed by a line break that end in a character other than ;
\* and { and white space
UnterminatedLines(lines) ==
    {i \in 1..(Len(lines) - 1) :
        /\ Len(lines[i]) > 0
        /\ lines[i][Len(lines[i])] \notin {";", "{"}
        /\ ~IsSpace(lines[i][Len(lines[i])])}

\* some line ends with an opening brace, white space aside
BraceEndsLine(lines) ==
    \E i \in 1..Len(lines) :
        \E p \in 1..Len(lines[i]) :
            /\ lines[i][p] = "{"
            /\ \A q \in (p + 1)..Len(lines[i]) : IsSpace(lines[i][q])

\* the categories the rule of a family recommends on a text
CategoriesAsStated(family, text) ==
    LET lines == SplitLines(text) IN
    CASE family = "python" ->
            IF TabIndented(lines) THEN <<"indentation">> ELSE <<>>
      [] family = "javascript" ->
            IF (\A p \in 1..Len(text) : text[p] # ";")
                   /\ Cardinality(UnterminatedLines(lines)) > 3
            THEN <<"semicolons">> ELSE <<>>
      [] family = "java" ->
            IF BraceEndsLine(lines) THEN <<>> ELSE <<"brace_style">>
      [] OTHER -> <<>>

\* C24: analyze_formatting dispatches only on the language string compared
\* case-insensitively: the Python rule (a line beginning with a tab gives one
\* indentation recommendation) for the Python family, the semicolon rule for
\* the JavaScript/TypeScript family, the brace rule for the Java family; for
\* a language string of no known family it returns an empty list, and it
\* applies at most one rule per call.
C24_FormattingDispatch ==
    op = "analyze_formatting" =>
        /\ out.kind = "return"
        /\ Len(out.value) <= 1
        /\ [k \in 1..Len(out.value) |-> out.value[k].category]
               = CategoriesAsStated(FormattingFamily(language), code)

\* C24 happens: the Python rule fired for a language string that is not in
\* lower case
C24_Witness ==
    /\ op = "analyze_formatting"
    /\ out.kind = "return"
    /\ language # Lower(language)
    /\ FormattingFamily(language) = "python"
    /\ Len(out.value) = 1
    /\ out.value[1].category = "indentation"

\* the messages of the issues analyze_issues returns for a text
IssueMessages(tbl, text, lang) ==
    LET issues == analyze_issues(tbl, text, lang).value IN
    {issues[i].message : i \in 1..Len(issues)}

\* C25: in the report of AnalysisService.analyze_for_debugging common_issues
\* holds no entry twice and is, as a set, the set of the messages of the
\* issues analyze_issues returns for the same input; two long lines of equal
\* length contribute one entry.
C25_CommonIssuesDeduplicated ==
    (op = "service_analyze_for_debugging" /\ out.kind = "return") =>
        LET common == out.value.common_issues IN
        /\ \A i, j \in 1..Len(common) : common[i] = common[j] => i = j
        /\ Range(common) = IssueMessages(adapters, code, language)

\* C25 happens: a report for a text with several long lines, two of them of
\* equal length, and two different lengths
C25_Witness ==
    /\ op = "service_analyze_for_debugging"
    /\ out.kind = "return"
    /\ \E i, j \in LongLines(code) :
           i # j /\ Len(SplitLines(code)[i]) = Len(SplitLines(code)[j])
    /\ Len(out.value.common_issues) = 2
    /\ Len(analyze_issues(adapters, code, language).value) > 2

\* the lines of the text on which one of the three patterns finds name
LinesYielding(lines, name) ==
    {i \in 1..Len(lines) :
        JsFunctionMatch(lines[i]).ok /\ JsFunctionMatch(lines[i]).name = name}

\* C26: JavaScript/TypeScript extract_functions yields at most one fact per
\* line (the first of the three patterns that matches wins), holds each
\* function name at most once, and when several lines yield the same name
\* keeps the fact of the first occurrence: its line number and parameters.
C26_FirstOccurrenceKept ==
    (/\ op = "extract_functions"
     /\ out.kind = "return"
     /\ create(adapters, language).value = "JavaScriptAdapter") =>
        LET lines == SplitLines(code)
            facts == out.value
        IN /\ \A k, l \in 1..Len(facts) :
                  (facts[k].line = facts[l].line \/ facts[k].name = facts[l].name)
                      => k = l
           /\ \A k \in 1..Len(facts) :
                  LET first == Min(LinesYielding(lines, facts[k].name)) IN
                  /\ facts[k].line = first
                  /\ facts[k].parameters =
                         Parameters(JsFunctionMatch(lines[first]).params)

\* the lines up to line i that hold a block-comment marker
MarkerLines(lines, i) ==
    {j \in 1..i : Contains(lines[j], S("/*")) \/ Contains(lines[j], S("*/"))}

\* the block-comment flag once line i is scanned (i = 0: before the first
\* line): set when the last line with a marker opens a comment and does not
\* close one
FlagAfter(lines, i) ==
    /\ MarkerLines(lines, i) # {}
    /\ ~Contains(lines[Max(MarkerLines(lines, i))], S("*/"))

\* how line i is reported: "block", "line" or "none"
ReportedAs(lines, i) ==
    IF Contains(lines[i], S("*/")) THEN "block"
    ELSE IF FlagAfter(lines, i - 1) \/ Contains(lines[i], S("/*")) THEN "block"
    ELSE IF StartsWith(Strip(lines[i]), S("//")) THEN "line"
    ELSE "none"

\* C27: extract_comments of the JavaScript and Java families scans the
\* lines in order with one block-comment flag: a line with /* sets it, a
\* line with */ clears it and is itself a block comment, every line scanned
\* while the flag is set is a block comment (a // line or a blank line too),
\* a line scanned while it is clear is reported only when its trimmed form
\* starts with //, as a line comment; each line is reported at most once, in
\* ascending order, and after a one-line /* ... */ the flag is clear.
C27_BlockCommentFlag ==
    (/\ op = "extract_comments"
     /\ out.kind = "return"
     /\ create(adapters, language).value \in {"JavaScriptAdapter", "JavaAdapter"}) =>
        LET lines == SplitLines(code)
            comments == out.value
        IN /\ \A k \in 1..Len(comments) :
                  /\ comments[k].line \in 1..Len(lines)
                  /\ comments[k].type = ReportedAs(lines, comments[k].line)
                  /\ comments[k].text = Strip(lines[comments[k].line])
                  /\ \A h \in 1..(k - 1) : comments[h].line < comments[k].line
           /\ \A i \in 1..Len(lines) :
                  ReportedAs(lines, i) # "none" =>
                      \E k \in 1..Len(comments) : comments[k].line = i
           /\ \A i \in 1..Len(lines) :
                  (Contains(lines[i], S("/*")) /\ Contains(lines[i], S("*/")))
                      => ~FlagAfter(lines, i)

\* C27 happens: comments extracted from a text with a block comment that
\* holds a // line and a blank line, a one-line /* ... */ followed by a line
\* that is no comment, and // lines outside
C27_Witness ==
    /\ op = "extract_comments"
    /\ out.kind = "return"
    /\ create(adapters, language).value = "JavaScriptAdapter"
    /\ LET lines == SplitLines(code) IN
       /\ \E i \in 2..Len(lines) :
              /\ FlagAfter(lines, i - 1)
              /\ StartsWith(Strip(lines[i]), S("//"))
              /\ ReportedAs(lines, i) = "block"
       /\ \E i \in 2..Len(lines) : FlagAfter(lines, i - 1) /\ Strip(lines[i]) = <<>>
       /\ \E i \in 1..(Len(lines) - 1) :
              /\ Contains(lines[i], S("/*")) /\ Contains(lines[i], S("*/"))
              /\ ReportedAs(lines, i + 1) = "none"
       /\ \E k \in 1..Len(out.value) : out.value[k].type = "line"

\* C28: for every supported language and every text the maintainability
\* analyze_quality returns lies in [50,100] and the duplication score is
\* strictly positive, so the overall_score is strictly greater than 50/3.
C28_ScoresAwayFromZero ==
    (op = "analyze_quality" /\ Supported(language)) =>
        /\ out.kind = "return"
        /\ RLe(Num(50), out.value.maintainability)
        /\ RLe(out.value.maintainability, Num(100))
        /\ RLt(Num(0), out.value.duplication)
        /\ RLt(Frac(50, 3), out.value.overall_score)

\* C28 happens: scores for a text without comments, where maintainability
\* is below its cap, and with repeated lines, where duplication is 50 or less
C28_Witness ==
    /\ op = "analyze_quality"
    /\ Supported(language)
    /\ out.kind = "return"
    /\ RLt(out.value.maintainability, Num(100))
    /\ RLe(out.value.duplication, Num(50))

\* the analyzer methods said to work without the factory, and the endpoints
\* that call nothing else
factory_free_ops ==
    {"analyze_complexity", "analyze_architecture", "analyze_formatting",
     "analyze_for_debugging"}

factory_free_posts ==
    {"POST /analyze/complexity", "POST /analyze/architecture",
     "POST /analyze/formatting"}

\* C29: only analyze_quality and analyze_issues consult the adapter factory:
\* analyze_complexity, analyze_architecture, analyze_formatting and
\* analyze_for_debugging of the analyzer return for every language string,
\* unsupported ones such as "cobol" included, so the endpoints
\* /analyze/complexity, /analyze/architecture and /analyze/formatting never
\* answer 400 for an unsupported language, while /analyze, /analyze/quality,
\* /analyze/issues and /analyze/debug do.
C29_FactoryUsers ==
    /\ op \in factory_free_ops => out.kind = "return"
    /\ (op \in analyzer_ops \ factory_free_ops /\ ~Supported(language)) =>
           out = Raise("ValueError", UnsupportedMessage(language))
    /\ op \in factory_free_posts =>
           /\ out.status # 400
           /\ code # <<>> => out.status = 200
    /\ (op \in post_ops \ factory_free_posts /\ ~Supported(language)
            /\ code # <<>>) =>
           /\ out.status = 400
           /\ out.body = [detail |-> UnsupportedMessage(language)]

\* C29 happens: POST /analyze/complexity with language "cobol" was answered
\* 200 with the metrics
C29_Witness ==
    /\ op = "POST /analyze/complexity"
    /\ language = S("cobol")
    /\ code # <<>>
    /\ out.status = 200
    /\ out.body.complexity_metrics.lines_of_code = Len(SplitLines(code))

\* C30: the factory and the formatting advisor disagree on the Java family:
\* for the aliases "cpp" and "c++" create() returns the Java-family adapter,
\* but analyze_formatting applies the brace rule only when the lowercased
\* language is exactly "java" and returns an empty list for "cpp" and "c++"
\* on every text.
C30_CppGetsNoBraceRule ==
    /\ Lower(language) \in {S("cpp"), S("c++")} =>
           /\ op = "create" => out = Return("JavaAdapter")
           /\ op = "analyze_formatting" => out = Return(<<>>)
    /\ (Lower(language) = S("java") /\ op = "analyze_formatting") =>
           /\ out.kind = "return"
           /\ [k \in 1..Len(out.value) |-> out.value[k].category]
                  = CategoriesAsStated("java", code)

\* C30 happens: analyze_formatting with language "cpp" returned nothing for a
\* text in which no line ends with an opening brace, where "java" gets the
\* brace recommendation
C30_Witness ==
    /\ op = "analyze_formatting"
    /\ language = S("cpp")
    /\ ~BraceEndsLine(SplitLines(code))
    /\ check_java_formatting(code) # <<>>
    /\ out = Return(<<>>)

====
